---- MODULE Spec2Model ----
(***************************************************************************)
(* Model of the nitor-vault envelope-encryption engine                     *)
(* (rust/src/vault.rs, rust/src/lib.rs, rust/src/value.rs).                *)
(*                                                                         *)
(* Byte strings are sequences of integers 0..255.  Text (object keys, the  *)
(* .meta JSON) is a sequence of one-character strings, so that prefixes,   *)
(* suffixes and single-byte changes are what they are in the program.      *)
(***************************************************************************)
EXTENDS Integers, Sequences, FiniteSets, TLC

(***************************************************************************)
(* Bounds of the model.                                                    *)
(***************************************************************************)
\* number of data keys the key service hands out in one run
MaxKeys == 1
\* number of stores in one run of SpecList
MaxStores == 2
\* number of keys the list service returns in one response (the service's
\* max-keys, 1000, scaled down)
PageSize == 6
\* the stack versions run from 1 to MaxVersion
MaxVersion == 3
\* the longest content of a file or of standard input, in bytes
MaxContent == 4

(***************************************************************************)
(* Program constants.                                                      *)
(***************************************************************************)
\* AesGcm<Aes256, U12>: the nonce is 12 bytes
NonceLen == 12
\* the GCM tag appended to the ciphertext is 16 bytes
TagLen == 16

\* Option::None; every Some(..) the model compares it with is a record
None == [none |-> TRUE]
Some(v) == [some |-> v]

(***************************************************************************)
(* Text helpers.                                                           *)
(***************************************************************************)
EndsWith(s, suffix) ==
    /\ Len(s) >= Len(suffix)
    /\ SubSeq(s, Len(s) - Len(suffix) + 1, Len(s)) = suffix

KeySuffix == <<".", "k", "e", "y">>
CipherSuffix == <<".", "a", "e", "s", "g", "c", "m", ".", "e", "n", "c", "r", "y", "p", "t", "e", "d">>
MetaSuffix == <<".", "m", "e", "t", "a">>

(***************************************************************************)
(* std::str::from_utf8: the UTF-8 well-formedness check (Unicode table     *)
(* 3-7), on a sequence of bytes.                                           *)
(***************************************************************************)
IsCont(b) == b >= 128 /\ b <= 191

RECURSIVE Utf8From(_, _)
Utf8From(b, i) ==
    IF i > Len(b) THEN TRUE
    ELSE LET c == b[i]
             has(n) == i + n <= Len(b)
         IN  IF c < 128 THEN Utf8From(b, i + 1)
             ELSE IF c >= 194 /\ c <= 223
                  THEN has(1) /\ IsCont(b[i + 1]) /\ Utf8From(b, i + 2)
             ELSE IF c >= 224 /\ c <= 239
                  THEN /\ has(2)
                       /\ IsCont(b[i + 1]) /\ IsCont(b[i + 2])
                       /\ (c = 224 => b[i + 1] >= 160)
                       /\ (c = 237 => b[i + 1] <= 159)
                       /\ Utf8From(b, i + 3)
             ELSE IF c >= 240 /\ c <= 244
                  THEN /\ has(3)
                       /\ IsCont(b[i + 1]) /\ IsCont(b[i + 2]) /\ IsCont(b[i + 3])
                       /\ (c = 240 => b[i + 1] >= 144)
                       /\ (c = 244 => b[i + 1] <= 143)
                       /\ Utf8From(b, i + 4)
             ELSE FALSE

IsUtf8(b) == Utf8From(b, 1)

(***************************************************************************)
(* Value (value.rs): Utf8(String) | Binary(Vec<u8>).                       *)
(***************************************************************************)
Utf8Value(b) == [tag |-> "Utf8", bytes |-> b]
BinaryValue(b) == [tag |-> "Binary", bytes |-> b]

\* the tail of Vault::lookup: String::from_utf8(decrypted_bytes)
ValueOfDecrypted(b) == IF IsUtf8(b) THEN Utf8Value(b) ELSE BinaryValue(b)

as_bytes(v) == v.bytes

(***************************************************************************)
(* base64::engine::general_purpose::STANDARD                               *)
(***************************************************************************)
B64Alphabet ==
    << "A", "B", "C", "D", "E", "F", "G", "H", "I", "J", "K", "L", "M",
       "N", "O", "P", "Q", "R", "S", "T", "U", "V", "W", "X", "Y", "Z",
       "a", "b", "c", "d", "e", "f", "g", "h", "i", "j", "k", "l", "m",
       "n", "o", "p", "q", "r", "s", "t", "u", "v", "w", "x", "y", "z",
       "0", "1", "2", "3", "4", "5", "6", "7", "8", "9", "+", "/" >>

B64Char(i) == B64Alphabet[i + 1]

IsB64Char(c) == \E i \in 1..64 : B64Alphabet[i] = c

B64Index(c) == (CHOOSE i \in 1..64 : B64Alphabet[i] = c) - 1

\* encode: three bytes to four symbols, the last group padded with "="
RECURSIVE B64EncodeFrom(_, _)
B64EncodeFrom(b, i) ==
    LET left == Len(b) - i + 1
    IN  IF left <= 0 THEN <<>>
        ELSE IF left = 1
             THEN << B64Char(b[i] \div 4), B64Char((b[i] % 4) * 16), "=", "=" >>
        ELSE IF left = 2
             THEN << B64Char(b[i] \div 4),
                     B64Char((b[i] % 4) * 16 + b[i + 1] \div 16),
                     B64Char((b[i + 1] % 16) * 4), "=" >>
        ELSE << B64Char(b[i] \div 4),
                B64Char((b[i] % 4) * 16 + b[i + 1] \div 16),
                B64Char((b[i + 1] % 16) * 4 + b[i + 2] \div 64),
                B64Char(b[i + 2] % 64) >> \o B64EncodeFrom(b, i + 3)

B64Encode(b) == B64EncodeFrom(b, 1)

\* decode one full group of four symbols
B64Quad(s, i) ==
    LET a == B64Index(s[i])
        b == B64Index(s[i + 1])
        c == B64Index(s[i + 2])
        d == B64Index(s[i + 3])
    IN  << a * 4 + b \div 16, (b % 16) * 16 + c \div 4, (c % 4) * 64 + d >>

RECURSIVE B64QuadsFrom(_, _, _)
B64QuadsFrom(s, i, last) ==
    IF i > last THEN <<>> ELSE B64Quad(s, i) \o B64QuadsFrom(s, i + 4, last)

\* decode: padding is required and canonical, trailing bits must be zero;
\* the result is [ok |-> TRUE, bytes |-> ..] or [ok |-> FALSE]
B64Decode(s) ==
    LET n == Len(s)
        bad == [ok |-> FALSE, bytes |-> <<>>]
        pad == IF n >= 2 /\ s[n] = "=" /\ s[n - 1] = "=" THEN 2
               ELSE IF n >= 1 /\ s[n] = "=" THEN 1 ELSE 0
        body == n - pad
    IN  IF n % 4 # 0 THEN bad
        ELSE IF \E i \in 1..body : ~IsB64Char(s[i]) THEN bad
        ELSE IF pad = 0 THEN [ok |-> TRUE, bytes |-> B64QuadsFrom(s, 1, n - 3)]
        ELSE LET a == B64Index(s[n - 3])
                 b == B64Index(s[n - 2])
                 head == B64QuadsFrom(s, 1, n - 7)
             IN  IF pad = 2
                 THEN IF b % 16 # 0 THEN bad
                      ELSE [ok |-> TRUE, bytes |-> head \o << a * 4 + b \div 16 >>]
                 ELSE LET c == B64Index(s[n - 1])
                      IN  IF c % 4 # 0 THEN bad
                          ELSE [ok |-> TRUE,
                                bytes |-> head \o << a * 4 + b \div 16,
                                                     (b % 16) * 16 + c \div 4 >>]


(***************************************************************************)
(* Meta (lib.rs): {alg, nonce}, nonce base64 of the raw nonce.             *)
(***************************************************************************)
Quote == "\""
AlgAesGcm == <<"A", "E", "S", "G", "C", "M">>
AlgField == <<"a", "l", "g">>
NonceField == <<"n", "o", "n", "c", "e">>

\* Meta::new("AESGCM", nonce) / Meta::aesgcm(nonce)
MetaNew(algorithm, nonce) == [alg |-> algorithm, nonce |-> B64Encode(nonce)]

\* Meta::to_json: serde_json::to_string of the two fields in declaration order
MetaToJson(meta) ==
    <<"{", Quote>> \o AlgField \o <<Quote, ":", Quote>> \o meta.alg
        \o <<Quote, ",", Quote>> \o NonceField \o <<Quote, ":", Quote>> \o meta.nonce
        \o <<Quote, "}">>

(***************************************************************************)
(* serde_json::from_slice::<Meta>: an object whose members are strings;    *)
(* members other than alg and nonce are ignored, a member given twice or   *)
(* missing is an error, whitespace is allowed between tokens and after the *)
(* object, anything else after it is an error.  "<FF>" stands for a byte   *)
(* that is not UTF-8 text.  The texts the model feeds it hold no escape    *)
(* sequence and no value other than a string.                              *)
(***************************************************************************)
IsWs(c) == c \in {" ", "\n", "\t", "\r"}

RECURSIVE SkipWs(_, _)
SkipWs(s, i) == IF i <= Len(s) /\ IsWs(s[i]) THEN SkipWs(s, i + 1) ELSE i

RECURSIVE StringEnd(_, _)
\* index of the quote closing the string whose text starts at i, 0 when none
StringEnd(s, i) ==
    IF i > Len(s) \/ s[i] = "<FF>" THEN 0
    ELSE IF s[i] = Quote THEN i
    ELSE StringEnd(s, i + 1)

\* a JSON string starting at i: [ok, val, next]
ParseString(s, i) ==
    IF i > Len(s) \/ s[i] # Quote THEN [ok |-> FALSE, val |-> <<>>, next |-> 0]
    ELSE LET e == StringEnd(s, i + 1)
         IN  IF e = 0 THEN [ok |-> FALSE, val |-> <<>>, next |-> 0]
             ELSE [ok |-> TRUE, val |-> SubSeq(s, i + 1, e - 1), next |-> e + 1]

MetaBad == [ok |-> FALSE, alg |-> <<>>, nonce |-> <<>>]

RECURSIVE ParseMembers(_, _, _, _, _)
\* i is at the start of a member name; hasAlg/hasNonce: the fields seen so far
ParseMembers(s, i, alg, nonce, seen) ==
    LET k == ParseString(s, i)
    IN  IF ~k.ok THEN MetaBad
        ELSE LET c == SkipWs(s, k.next)
             IN  IF c > Len(s) \/ s[c] # ":" THEN MetaBad
                 ELSE LET v == ParseString(s, SkipWs(s, c + 1))
                      IN  IF ~v.ok THEN MetaBad
                          ELSE IF k.val \in seen THEN MetaBad
                          ELSE LET alg2 == IF k.val = AlgField THEN v.val ELSE alg
                                   nonce2 == IF k.val = NonceField THEN v.val ELSE nonce
                                   seen2 == IF k.val \in {AlgField, NonceField}
                                            THEN seen \cup {k.val} ELSE seen
                                   e == SkipWs(s, v.next)
                               IN  IF e > Len(s) THEN MetaBad
                                   ELSE IF s[e] = ","
                                        THEN ParseMembers(s, SkipWs(s, e + 1), alg2, nonce2, seen2)
                                   ELSE IF s[e] = "}"
                                        THEN IF seen2 = {AlgField, NonceField}
                                                /\ SkipWs(s, e + 1) > Len(s)
                                             THEN [ok |-> TRUE, alg |-> alg2, nonce |-> nonce2]
                                             ELSE MetaBad
                                   ELSE MetaBad

MetaFromSlice(s) ==
    LET o == SkipWs(s, 1)
    IN  IF o > Len(s) \/ s[o] # "{" THEN MetaBad
        ELSE LET m == SkipWs(s, o + 1)
             IN  IF m <= Len(s) /\ s[m] = "}" THEN MetaBad
                 ELSE ParseMembers(s, m, <<>>, <<>>, {})

(***************************************************************************)
(* AES-256-GCM (aes_gcm crate) as an ideal AEAD.  The sealed bytes are the *)
(* payload masked by a keystream of the key and nonce, followed by the     *)
(* tag; the tag is kept symbolically as what it authenticates, and `x`     *)
(* numbers the tag byte that differs from the genuine tag (0: none).       *)
(***************************************************************************)
KeyStream(key, nonce, i) == (key.id * 7 + nonce[1] + nonce[Len(nonce)] + i) % 256

GcmTag(key, nonce, aad, body) ==
    [k |-> key, n |-> nonce, a |-> aad, c |-> body, x |-> 0]

\* Aead::encrypt(nonce, Payload {msg, aad})
AeadEncrypt(key, nonce, msg, aad) ==
    LET body == [i \in 1..Len(msg) |-> (msg[i] + KeyStream(key, nonce, i)) % 256]
    IN  [body |-> body, tag |-> GcmTag(key, nonce, aad, body)]

\* a decrypt that removes the key stream without authenticating the tag
AeadDecryptUnauthenticated(key, nonce, sealed, aad) ==
    [ok |-> TRUE,
     bytes |-> [i \in 1..Len(sealed.body) |->
                   (sealed.body[i] + 256 - KeyStream(key, nonce, i)) % 256]]

\* Aead::decrypt(nonce, Payload {msg, aad}): the plaintext, or an error when
\* the tag does not authenticate (key, nonce, aad, body)
AeadDecrypt(key, nonce, sealed, aad) ==
    IF sealed.tag = GcmTag(key, nonce, aad, sealed.body)
    THEN [ok |-> TRUE,
          bytes |-> [i \in 1..Len(sealed.body) |->
                        (sealed.body[i] + 256 - KeyStream(key, nonce, i)) % 256]]
    ELSE [ok |-> FALSE, bytes |-> <<>>]

(***************************************************************************)
(* The key service.  GenerateDataKey number k returns the 32-byte          *)
(* Plaintext and its wrapped form, the CiphertextBlob; Decrypt unwraps a   *)
(* blob the service issued.                                                *)
(***************************************************************************)
DataKeyPlaintext(k) == [kind |-> "plaintext", id |-> k, len |-> 32]
DataKeyBlob(k) == [kind |-> "wrapped", id |-> k, len |-> 32]
KmsUnwrap(blob) == DataKeyPlaintext(blob.id)

(***************************************************************************)
(* Inputs of the model.                                                    *)
(***************************************************************************)
\* the payloads passed to store: empty, ASCII text, a two-byte UTF-8 character
\* (U+00E9), and its first byte alone, which is not UTF-8
Data == {<<>>, <<65>>, <<195, 169>>, <<195>>}

\* logical secret names
Names == {<<"a">>, <<"b">>}

\* the prefix argument of Vault::new
Prefixes == {<<>>, <<"t">>, <<"t", "/">>}

\* the nonces create_random_nonce may draw, NonceLen bytes each
ZeroNonce == [i \in 1..NonceLen |-> 0]
Nonces == {ZeroNonce, [i \in 1..NonceLen |-> (i * 37) % 256]}

\* the clients (tasks) calling one Vault
Procs == {1, 2}

\* the three sibling objects of a secret
Parts == {"cipher", "key", "meta"}

(***************************************************************************)
(* State.                                                                  *)
(*   bucket   the objects of the configured bucket: object key -> body     *)
(*   prefix   Vault.prefix                                                 *)
(*   key_arn  Vault.cloudformation_params.key_arn, None when not set       *)
(*   nextKey  the number of the data key GenerateDataKey returns next      *)
(*   proc     per client: the call it is in and that call's locals         *)
(*   track    per name (history variable): whether the last write to its   *)
(*            objects completed an undisturbed successful store, with the  *)
(*            payload and what was changed in the objects since, or was a  *)
(*            successful delete                                            *)
(*   stacks   the CloudFormation stacks of the account: name -> stack      *)
(*   ctl      the stack-controller or constructor call under way           *)
(*   env      the environment variables of the process                     *)
(***************************************************************************)
VARIABLES bucket, prefix, key_arn, nextKey, proc, track, stacks, ctl, env

vars == <<bucket, prefix, key_arn, nextKey, proc, track, stacks, ctl, env>>

NoResult == [kind |-> "none"]
Ok(v) == [kind |-> "ok", val |-> v]
Err(e) == [kind |-> "err", err |-> e]
Panic == [kind |-> "panic"]

NoEnc == [data_key |-> None, aes_gcm_ciphertext |-> None, meta |-> None]
NoGot == [w \in {} |-> None]
NoTrack == [stored |-> FALSE, deleted |-> FALSE]
DeletedTrack == [stored |-> FALSE, deleted |-> TRUE]

Idle == [pc |-> "idle", op |-> "none", name |-> <<>>, data |-> <<>>, enc |-> NoEnc,
         pending |-> {}, got |-> NoGot, reqs |-> {}, faulted |-> FALSE,
         alone |-> TRUE, base |-> NoTrack, aad |-> None, cli |-> None,
         result |-> NoResult]

\* the prefix kept as it was given
NormalizePrefixAsGiven(p) == p

\* Vault::new, lines 81-87: the prefix is empty or ends with "/"
NormalizePrefix(p) ==
    IF p # <<>> /\ ~EndsWith(p, <<"/">>) THEN Append(p, "/") ELSE p

\* Vault::full_key_name
full_key_name(name) == IF prefix = <<>> THEN name ELSE prefix \o name

\* S3DataKeys::new
S3DataKeys(name) ==
    [key |-> name \o KeySuffix, cipher |-> name \o CipherSuffix, meta |-> name \o MetaSuffix]

\* identifiers that leave the .meta object out
to_object_identifiersWithoutMeta(keys) == {keys.key, keys.cipher}

\* S3DataKeys::as_array / to_object_identifiers
to_object_identifiers(keys) == {keys.key, keys.cipher, keys.meta}

Present(k) == k \in DOMAIN bucket

BucketPut(k, body) ==
    [o \in DOMAIN bucket \cup {k} |-> IF o = k THEN body ELSE bucket[o]]

BucketDelete(ks) == [o \in DOMAIN bucket \ ks |-> bucket[o]]

\* the stack names of the model: the default name, one handed over as an
\* argument and one set in VAULT_STACK
StackNames == {"vault", "v1", "e1"}

\* a name that has no stack
NoStack == [status |-> "NONE", version |-> None, bucket |-> None, key |-> None,
            target |-> None, inited |-> FALSE]

\* the environment without any VAULT_ variable
NoEnv == [VAULT_STACK |-> None, VAULT_BUCKET |-> None, VAULT_KEY |-> None,
          VAULT_PREFIX |-> None]

\* no controller call under way.  args: the arguments of the call; loop: the
\* poll loop that follows a submitted change; seen: the status in the answer
\* to the loop's last request, if it had one; found: whether init's describe_stack found the stack;
\* deployed: the version output in the stack data update_stack read, if it
\* read them;
\* report: what the call reports when the loop succeeds
CtlIdle == [pc |-> "idle", op |-> "none", args |-> None, stack_name |-> "",
            bucket |-> None, loop |-> "none", reqs |-> {}, faulted |-> FALSE,
            seen |-> None, found |-> None, deployed |-> None, report |-> None,
            round |-> 0, result |-> NoResult]

\* no stack, no call, no VAULT_ variable
InitAws ==
    /\ stacks = [n \in StackNames |-> NoStack]
    /\ ctl = CtlIdle
    /\ env = NoEnv

Init ==
    /\ bucket = [o \in {} |-> None]
    /\ prefix \in {NormalizePrefix(p) : p \in Prefixes}
    /\ key_arn \in {None, Some("arn:kms:key")}
    /\ nextKey = 1
    /\ proc = [p \in Procs |-> Idle]
    /\ track = [n \in Names |-> NoTrack]
    /\ InitAws

\* a write to the objects of `name` by client q disturbs every other client's
\* call on that name that is under way
Disturb(f, q, name) ==
    [p \in Procs |->
        IF p # q /\ f[p].pc # "idle" /\ f[p].name = name
        THEN [f[p] EXCEPT !.alone = FALSE]
        ELSE f[p]]

Request(verb, keys) == [verb |-> verb, keys |-> keys]

(***************************************************************************)
(* Vault::encrypt.  gdk is what GenerateDataKey answers: "ok", "error",    *)
(* "no_plaintext" or "no_blob" (a response lacking that member).           *)
(***************************************************************************)
GenerateDataKey(gdk, k) ==
    [ok |-> gdk # "error",
     plaintext |-> IF gdk = "no_plaintext" THEN None ELSE DataKeyPlaintext(k),
     ciphertext_blob |-> IF gdk = "no_blob" THEN None ELSE DataKeyBlob(k)]

\* the bytes sealed as additional authenticated data: meta.as_bytes()
EncryptAad(meta) == meta

\* encrypt from the generate_data_key call on
SealWithDataKey(data, gdk, nonce) ==
    LET key_dict == GenerateDataKey(gdk, nextKey)
    IN  IF ~key_dict.ok THEN Err("KmsGenerateDataKeyError")
        ELSE IF key_dict.plaintext = None THEN Err("KMSDataKeyPlainTextMissingError")
        ELSE IF key_dict.plaintext.len # 32 THEN Err("InvalidNonceLengthError")
        ELSE LET meta == MetaToJson(MetaNew(AlgAesGcm, nonce))
                 aes_gcm_ciphertext ==
                     AeadEncrypt(key_dict.plaintext, nonce, data, EncryptAad(meta))
             IN  IF key_dict.ciphertext_blob = None THEN Err("CiphertextEncryptionError")
                 ELSE Ok([data_key |-> key_dict.ciphertext_blob,
                          aes_gcm_ciphertext |-> aes_gcm_ciphertext,
                          meta |-> meta])

\* an encrypt that does not look at the key ARN
encryptWithoutArnCheck(data, gdk, nonce) == SealWithDataKey(data, gdk, nonce)

encrypt(data, gdk, nonce) ==
    IF key_arn = None THEN Err("KeyARNMissingError")
    ELSE SealWithDataKey(data, gdk, nonce)

\* whether store goes on to its PUTs after encrypt returned r
StoreProceeds(r) == r.kind = "ok"

\* a store that persists the data key as the key service unwraps it
StoreBodyPlainKey(encrypted, part) ==
    CASE part = "cipher" -> encrypted.aes_gcm_ciphertext
      [] part = "key" -> KmsUnwrap(encrypted.data_key)
      [] part = "meta" -> encrypted.meta

\* the body store PUTs under each of the three keys
StoreBody(encrypted, part) ==
    CASE part = "cipher" -> encrypted.aes_gcm_ciphertext
      [] part = "key" -> encrypted.data_key
      [] part = "meta" -> encrypted.meta

(***************************************************************************)
(* Vault::store, first half: `self.encrypt(data).await?`, then the three   *)
(* put_s3_object futures are created.                                      *)
(***************************************************************************)
\* from is the call record the store starts in: Idle for a caller of the
\* library, the record of the command after its checks for the command line
StoreStart(p, from, name, data, gdk, nonce) ==
    /\ LET r == encrypt(data, gdk, nonce)
           reqs == IF key_arn = None THEN {} ELSE {Request("GenerateDataKey", {})}
           call == [from EXCEPT !.op = "store", !.name = name,
                                !.reqs = @ \cup reqs, !.faulted = @ \/ gdk # "ok"]
       IN  /\ proc' = [proc EXCEPT ![p] =
                         IF StoreProceeds(r)
                         THEN [call EXCEPT !.pc = "store_puts", !.data = data,
                                           !.enc = r.val, !.pending = Parts]
                         ELSE [call EXCEPT !.result = r]]
           /\ nextKey' = IF r.kind = "ok" THEN nextKey + 1 ELSE nextKey
    /\ UNCHANGED <<bucket, prefix, key_arn, track, stacks, ctl, env>>

StoreEncrypt(p, name, data, gdk, nonce) ==
    /\ proc[p].pc = "idle"
    /\ StoreStart(p, Idle, name, data, gdk, nonce)

\* what store returns once no PUT is pending
StoreJoined == Ok("unit")

\* a store that joins all three PUTs whatever their outcome
StoreAfterErrorJoinAll(pending, part) == pending \ {part}

\* what a store whose PUT of `part` failed leaves pending (try_join! returns
\* on the first error and drops the other futures)
StoreAfterError(pending, part) == {}

(***************************************************************************)
(* Vault::store, second half: tokio::try_join!(put_cipher, put_key,        *)
(* put_meta).  The three PUTs complete in any order; s3 is what the        *)
(* service answers to this one.                                            *)
(***************************************************************************)
StorePut(p, part, s3) ==
    LET c == proc[p]
        keys == S3DataKeys(full_key_name(c.name))
        req == Request("PUT", {keys[part]})
    IN  /\ c.pc = "store_puts"
        /\ part \in c.pending
        /\ IF s3 = "ok"
           THEN LET left == c.pending \ {part}
                    next == [c EXCEPT !.pending = left, !.reqs = @ \cup {req}]
                    done == [next EXCEPT !.pc = "idle", !.enc = NoEnc, !.data = <<>>,
                                         !.result = StoreJoined]
                IN  /\ bucket' = BucketPut(keys[part], StoreBody(c.enc, part))
                    /\ proc' = Disturb([proc EXCEPT ![p] = IF left = {} THEN done ELSE next],
                                       p, c.name)
                    /\ track' = [track EXCEPT ![c.name] =
                                   IF left = {} /\ c.alone
                                   THEN [stored |-> TRUE, deleted |-> FALSE, data |-> c.data,
                                         tamper |-> "none"]
                                   ELSE NoTrack]
           ELSE LET left == StoreAfterError(c.pending, part)
                    next == [c EXCEPT !.pending = left, !.reqs = @ \cup {req},
                                      !.faulted = TRUE]
                IN  /\ proc' = [proc EXCEPT ![p] =
                                  IF left = {}
                                  THEN [next EXCEPT !.pc = "idle", !.enc = NoEnc, !.data = <<>>,
                                                    !.result = Err("S3PutObjectError")]
                                  ELSE next]
                    /\ UNCHANGED <<bucket, track>>
    /\ UNCHANGED <<prefix, key_arn, nextKey, stacks, ctl, env>>

(***************************************************************************)
(* Vault::lookup, first half: the three get_s3_object futures joined by    *)
(* tokio::try_join!.  s3 is what the service answers to one GET: "ok" (the *)
(* object, or the NoSuchKey service error when there is none), "error", or *)
(* "body_error" (the body stream breaks).                                  *)
(***************************************************************************)
LookupCall(p, name) ==
    /\ proc[p].pc = "idle"
    /\ proc' = [proc EXCEPT ![p] =
                  [Idle EXCEPT !.pc = "lookup_gets", !.op = "lookup", !.name = name,
                               !.pending = Parts, !.base = track[name]]]
    /\ UNCHANGED <<bucket, prefix, key_arn, nextKey, track, stacks, ctl, env>>

\* a get_s3_object that reports an absent object as a listing without contents
get_s3_objectNoContents(key, s3) ==
    IF s3 = "error" THEN Err("S3GetObjectError")
    ELSE IF ~Present(key) THEN Err("S3NoContentsError")
    ELSE IF s3 = "body_error" THEN Err("S3GetObjectBodyError")
    ELSE Ok(bucket[key])

\* get_s3_object
get_s3_object(key, s3) ==
    IF s3 = "error" \/ ~Present(key) THEN Err("S3GetObjectError")
    ELSE IF s3 = "body_error" THEN Err("S3GetObjectBodyError")
    ELSE Ok(bucket[key])

\* the state lookup is in when no GET is pending any more
LookupJoined == "lookup_decrypt"

LookupGet(p, part, s3) ==
    LET c == proc[p]
        keys == S3DataKeys(full_key_name(c.name))
        r == get_s3_object(keys[part], s3)
        next == [c EXCEPT !.reqs = @ \cup {Request("GET", {keys[part]})},
                          !.faulted = @ \/ s3 # "ok"]
    IN  /\ c.pc = "lookup_gets"
        /\ part \in c.pending
        /\ proc' = [proc EXCEPT ![p] =
                      IF r.kind = "ok"
                      THEN LET left == c.pending \ {part}
                           IN  [next EXCEPT !.pending = left,
                                            !.got = [w \in DOMAIN c.got \cup {part} |->
                                                        IF w = part THEN r.val ELSE c.got[w]],
                                            !.pc = IF left = {} THEN LookupJoined ELSE @]
                      ELSE [next EXCEPT !.pc = "idle", !.pending = {}, !.got = NoGot,
                                        !.result = r]]
        /\ UNCHANGED <<bucket, prefix, key_arn, nextKey, track, stacks, ctl, env>>

\* direct_decrypt: kms is what Decrypt answers: "ok", "error", "no_plaintext"
direct_decrypt(encrypted_data, kms) ==
    IF kms = "error" THEN Err("KmsDecryptError")
    ELSE IF kms = "no_plaintext" THEN Err("KMSDataKeyPlainTextMissingError")
    ELSE Ok(KmsUnwrap(encrypted_data))

\* a lookup that builds the aad from the nonce it parsed
LookupAadFromNonce(meta_add, meta) == MetaToJson([alg |-> AlgAesGcm, nonce |-> meta.nonce])

\* a lookup that serialises the parsed Meta again for the aad
LookupAadReserialized(meta_add, meta) == MetaToJson(meta)

\* the aad handed to Aead::decrypt: `aad: &meta_add`, the bytes read
LookupAad(meta_add, meta) == meta_add

\* a failed Aead::decrypt reported as a cipher construction failure
DecryptFailureAsLength == Err("InvalidNonceLengthError")

\* what the failed Aead::decrypt is mapped to
DecryptFailure == Err("NonceDecryptError")

\* a lookup that returns text only: Ok(String::from_utf8(res)?)
LookupValueString(decrypted_bytes) ==
    IF IsUtf8(decrypted_bytes) THEN Ok(Utf8Value(decrypted_bytes))
    ELSE Err("NonUtf8BodyError")

\* the Value lookup returns for the decrypted bytes
LookupValue(decrypted_bytes) == Ok(ValueOfDecrypted(decrypted_bytes))

\* lines 323-341, after the join: [result, reqs, aad]
LookupOpen(got, kms) ==
    LET meta == MetaFromSlice(got.meta)
        none == {}
        call == {Request("Decrypt", {})}
        out(r, q, a) == [result |-> r, reqs |-> q, aad |-> a]
    IN  IF ~meta.ok THEN out(Err("EncryptObjectMetaToJsonError"), none, None)
        ELSE LET key == direct_decrypt(got.key, kms)
             IN  IF key.kind # "ok" THEN out(key, call, None)
                 ELSE IF key.val.len # 32 THEN out(Err("InvalidNonceLengthError"), call, None)
                 ELSE LET nonce == B64Decode(meta.nonce)
                      IN  IF ~nonce.ok THEN out(Err("NonceParseError"), call, None)
                          \* Nonce::from_slice asserts the length
                          ELSE IF Len(nonce.bytes) # NonceLen THEN out(Panic, call, None)
                          ELSE LET aad == LookupAad(got.meta, meta)
                                   opened == AeadDecrypt(key.val, nonce.bytes, got.cipher, aad)
                               IN  IF ~opened.ok THEN out(DecryptFailure, call, Some(aad))
                                   ELSE out(LookupValue(opened.bytes), call, Some(aad))

(***************************************************************************)
(* Vault::lookup, second half: parse, unwrap the key, open.                *)
(***************************************************************************)
LookupDecrypt(p, kms) ==
    LET c == proc[p]
        o == LookupOpen(c.got, kms)
    IN  /\ c.pc = "lookup_decrypt"
        /\ proc' = [proc EXCEPT ![p] =
                      [c EXCEPT !.pc = "idle", !.result = o.result,
                                !.reqs = @ \cup o.reqs, !.aad = o.aad,
                                !.faulted = @ \/ (o.reqs # {} /\ kms # "ok")]]
        /\ UNCHANGED <<bucket, prefix, key_arn, nextKey, track, stacks, ctl, env>>

(***************************************************************************)
(* Vault::exists: HEAD of "<prefix+name>.key".  s3: "ok" (found, or the    *)
(* typed not-found error when there is no such object) or "error".         *)
(***************************************************************************)
\* the key of a Vault that knows no prefix
ExistsKeyWithoutPrefix(name) == S3DataKeys(name).key

\* the object key exists sends in its HEAD
ExistsKey(name) == S3DataKeys(full_key_name(name)).key

head_object(key, s3) ==
    IF s3 = "error" THEN "error" ELSE IF Present(key) THEN "ok" ELSE "not_found"

exists(name, s3) ==
    LET h == head_object(ExistsKey(name), s3)
    IN  IF h = "ok" THEN Ok(TRUE)
        ELSE IF h = "not_found" THEN Ok(FALSE)
        ELSE Err("S3HeadObjectError")

Exists(p, name, s3) ==
    /\ proc[p].pc = "idle"
    /\ proc' = [proc EXCEPT ![p] =
                  [Idle EXCEPT !.op = "exists", !.name = name,
                               !.reqs = {Request("HEAD", {ExistsKey(name)})},
                               !.faulted = s3 # "ok", !.result = exists(name, s3)]]
    /\ UNCHANGED <<bucket, prefix, key_arn, nextKey, track, stacks, ctl, env>>

(***************************************************************************)
(* Vault::delete: `if !self.exists(name).await? { return Err(..) }`, then  *)
(* one delete_objects request with the three identifiers.                  *)
(***************************************************************************)
\* a delete that stops only when exists failed
DeletePreflightErrorsOnly(e) == IF e.kind = "err" THEN Some(e) ELSE None

\* what delete does after exists answered e: the error it returns, or None
\* when it goes on to the batched delete
DeletePreflight(e) ==
    IF e.kind = "err" THEN Some(e)
    ELSE IF ~e.val THEN Some(Err("S3DeleteObjectKeyMissingError"))
    ELSE None

DeleteExists(p, name, s3) ==
    LET e == exists(name, s3)
        stop == DeletePreflight(e)
        call == [Idle EXCEPT !.op = "delete", !.name = name,
                             !.reqs = {Request("HEAD", {ExistsKey(name)})},
                             !.faulted = s3 # "ok"]
    IN  /\ proc[p].pc = "idle"
        /\ proc' = [proc EXCEPT ![p] =
                      IF stop = None THEN [call EXCEPT !.pc = "delete_objects"]
                      ELSE [call EXCEPT !.result = stop.some]]
        /\ UNCHANGED <<bucket, prefix, key_arn, nextKey, track, stacks, ctl, env>>

\* the identifiers of the batch
DeleteIdentifiers(name) == to_object_identifiers(S3DataKeys(full_key_name(name)))

DeleteObjects(p, s3) ==
    LET c == proc[p]
        ids == DeleteIdentifiers(c.name)
        next == [c EXCEPT !.pc = "idle", !.reqs = @ \cup {Request("DELETE", ids)},
                          !.faulted = @ \/ s3 # "ok"]
    IN  /\ c.pc = "delete_objects"
        /\ IF s3 = "ok"
           THEN /\ bucket' = BucketDelete(ids)
                /\ proc' = Disturb([proc EXCEPT ![p] = [next EXCEPT !.result = Ok("unit")]],
                                   p, c.name)
                /\ track' = [track EXCEPT ![c.name] = DeletedTrack]
           ELSE /\ proc' = [proc EXCEPT ![p] =
                              [next EXCEPT !.result = Err("S3DeleteObjectsError")]]
                /\ UNCHANGED <<bucket, track>>
        /\ UNCHANGED <<prefix, key_arn, nextKey, stacks, ctl, env>>

(***************************************************************************)
(* Vault::all: one list_objects_v2 request; the names are taken from the   *)
(* contents of its response.  The service answers with the first PageSize  *)
(* keys of the bucket in the byte order of the keys and marks the answer   *)
(* truncated when there are more.                                          *)
(***************************************************************************)
\* the characters of the keys, in byte order
CharOrder == <<".", "/", "a", "b", "c", "d", "e", "f", "g", "h", "i", "j", "k", "l", "m",
               "n", "o", "p", "q", "r", "s", "t", "u", "v", "w", "x", "y", "z">>

CharRank(c) == CHOOSE i \in 1..Len(CharOrder) : CharOrder[i] = c

RECURSIVE KeyLessFrom(_, _, _)
\* x sorts before y, both being equal before position i
KeyLessFrom(x, y, i) ==
    IF i > Len(x) THEN i <= Len(y)
    ELSE IF i > Len(y) THEN FALSE
    ELSE IF x[i] = y[i] THEN KeyLessFrom(x, y, i + 1)
    ELSE CharRank(x[i]) < CharRank(y[i])

RECURSIVE SortKeys(_)
SortKeys(S) ==
    IF S = {} THEN <<>>
    ELSE LET m == CHOOSE k \in S : \A o \in S \ {k} : KeyLessFrom(k, o, 1)
         IN  <<m>> \o SortKeys(S \ {m})

\* what the list service answers: s3 is "ok" or "error"
list_objects_v2(s3) ==
    LET sorted == SortKeys(DOMAIN bucket)
        n == IF Len(sorted) < PageSize THEN Len(sorted) ELSE PageSize
    IN  IF s3 = "error" THEN Err("S3ListObjectsError")
        ELSE Ok([contents |-> SubSeq(sorted, 1, n), is_truncated |-> n < Len(sorted)])

\* str::strip_suffix of a key that ends with the suffix
strip_suffix(s, suffix) == SubSeq(s, 1, Len(s) - Len(suffix))

RECURSIVE filter_mapKeyObjects(_)
\* a listing that takes the names from the ".key" objects
filter_mapKeyObjects(contents) ==
    IF contents = <<>> THEN <<>>
    ELSE LET key == Head(contents)
             rest == filter_mapKeyObjects(Tail(contents))
         IN  IF EndsWith(key, KeySuffix)
             THEN <<strip_suffix(key, KeySuffix)>> \o rest
             ELSE rest

RECURSIVE filter_map(_)
\* lines 229-242: the keys that end with ".aesgcm.encrypted", stripped of it
filter_map(contents) ==
    IF contents = <<>> THEN <<>>
    ELSE LET key == Head(contents)
             rest == filter_map(Tail(contents))
         IN  IF EndsWith(key, CipherSuffix)
             THEN <<strip_suffix(key, CipherSuffix)>> \o rest
             ELSE rest

all(s3) ==
    LET output == list_objects_v2(s3)
    IN  IF output.kind # "ok" THEN output ELSE Ok(filter_map(output.val.contents))

All(p, s3) ==
    /\ proc[p].pc = "idle"
    /\ proc' = [proc EXCEPT ![p] =
                  [Idle EXCEPT !.op = "all", !.reqs = {Request("LIST", {})},
                               !.faulted = s3 # "ok", !.result = all(s3)]]
    /\ UNCHANGED <<bucket, prefix, key_arn, nextKey, track, stacks, ctl, env>>

(***************************************************************************)
(* Changes made to the bucket from outside the Vault, after a store that   *)
(* succeeded, while no call is under way.                                  *)
(***************************************************************************)
\* the bytes a changed byte of .meta may become
MutChars == {" ", Quote, "B", "=", "<FF>"}

Quiet == \A p \in Procs : proc[p].pc = "idle"

Untouched(name) == track[name].stored /\ track[name].tamper = "none"

Tampered(name, how) == [track EXCEPT ![name].tamper = how]

\* one byte of the .meta object is replaced by another
TamperMeta(name, i, c) ==
    LET k == S3DataKeys(full_key_name(name)).meta
    IN  /\ Quiet /\ Untouched(name)
        /\ i \in 1..Len(bucket[k])
        /\ c # bucket[k][i]
        /\ bucket' = [bucket EXCEPT ![k][i] = c]
        /\ track' = Tampered(name, "meta_byte")
        /\ UNCHANGED <<prefix, key_arn, nextKey, proc, stacks, ctl, env>>

\* the .meta object is replaced by a JSON text that parses to the same Meta
\* and has a space more, before byte i
ReformatMeta(name, i) ==
    LET k == S3DataKeys(full_key_name(name)).meta
        old == bucket[k]
        new == SubSeq(old, 1, i - 1) \o <<" ">> \o SubSeq(old, i, Len(old))
    IN  /\ Quiet /\ Untouched(name)
        /\ i \in 1..(Len(old) + 1)
        /\ MetaFromSlice(new).ok
        /\ MetaFromSlice(new) = MetaFromSlice(old)
        /\ bucket' = [bucket EXCEPT ![k] = new]
        /\ track' = Tampered(name, "meta_reformat")
        /\ UNCHANGED <<prefix, key_arn, nextKey, proc, stacks, ctl, env>>

\* one byte of the .aesgcm.encrypted object is changed: byte i of the masked
\* payload (by delta), or byte i - Len(body) of the tag
TamperCipher(name, i, delta) ==
    LET k == S3DataKeys(full_key_name(name)).cipher
        old == bucket[k]
        n == Len(old.body)
    IN  /\ Quiet /\ Untouched(name)
        /\ i \in 1..(n + TagLen)
        /\ bucket' = [bucket EXCEPT ![k] =
                        IF i <= n
                        THEN [old EXCEPT !.body[i] = (@ + delta) % 256]
                        ELSE [old EXCEPT !.tag.x = i - n]]
        /\ track' = Tampered(name, "cipher_byte")
        /\ UNCHANGED <<prefix, key_arn, nextKey, proc, stacks, ctl, env>>

\* the clients that act in Spec: one caller, whose calls follow one another.
\* The nonce its stores draw is ZeroNonce: no answer in Spec depends on the
\* value of the nonce (SpecTamper draws from Nonces).
Clients == {1}

GdkOutcomes == {"ok", "error", "no_plaintext", "no_blob"}
KmsOutcomes == {"ok", "error", "no_plaintext"}
S3Outcomes == {"ok", "error"}
GetOutcomes == {"ok", "error", "body_error"}

Next ==
    \E p \in Clients :
        \/ \E n \in Names, d \in Data, g \in GdkOutcomes, nc \in {ZeroNonce} :
               /\ g = "ok" => nextKey <= MaxKeys
               /\ StoreEncrypt(p, n, d, g, nc)
        \/ \E w \in Parts, s \in S3Outcomes : StorePut(p, w, s)
        \/ \E n \in Names : LookupCall(p, n)
        \/ \E w \in Parts, s \in GetOutcomes : LookupGet(p, w, s)
        \/ \E k \in KmsOutcomes : LookupDecrypt(p, k)
        \/ \E n \in Names, s \in S3Outcomes : Exists(p, n, s)
        \/ \E n \in Names, s \in S3Outcomes : DeleteExists(p, n, s)
        \/ \E s \in S3Outcomes : DeleteObjects(p, s)

Spec == Init /\ [][Next]_vars

(***************************************************************************)
(* SpecTamper: one caller stores and looks up one name while the services  *)
(* answer, and the stored objects are changed from outside.                *)
(***************************************************************************)
TamperName == <<"a">>
MetaLen == Len(MetaToJson(MetaNew(AlgAesGcm, ZeroNonce)))
LongestData == CHOOSE n \in 0..8 : \A d \in Data : Len(d) <= n /\ \E e \in Data : Len(e) = n

NextTamper ==
    \/ \E d \in Data, nc \in Nonces :
           /\ nextKey <= MaxKeys
           /\ StoreEncrypt(1, TamperName, d, "ok", nc)
    \/ \E w \in Parts : StorePut(1, w, "ok")
    \/ LookupCall(1, TamperName)
    \/ \E w \in Parts : LookupGet(1, w, "ok")
    \/ LookupDecrypt(1, "ok")
    \/ \E i \in 1..MetaLen, c \in MutChars : TamperMeta(TamperName, i, c)
    \/ \E i \in 1..(MetaLen + 1) : ReformatMeta(TamperName, i)
    \/ \E i \in 1..(LongestData + TagLen), delta \in {1, 128} : TamperCipher(TamperName, i, delta)

\* a Vault with a prefix and a key ARN, on an empty bucket
InitTamper ==
    /\ bucket = [o \in {} |-> None]
    /\ prefix = NormalizePrefix(<<"t">>)
    /\ key_arn = Some("arn:kms:key")
    /\ nextKey = 1
    /\ proc = [p \in Procs |-> Idle]
    /\ track = [n \in Names |-> NoTrack]
    /\ InitAws

SpecTamper == InitTamper /\ [][NextTamper]_vars

(***************************************************************************)
(* SpecList: one caller stores secrets and lists the bucket, which other   *)
(* writers share.                                                          *)
(***************************************************************************)
\* the keys other writers put into the bucket
ForeignKeys == {<<".", "x">>, <<".", "y">>, <<"o", "/", "c">> \o CipherSuffix}

\* another writer puts an object
PutForeign(k) ==
    /\ Quiet
    /\ k \notin DOMAIN bucket
    /\ bucket' = BucketPut(k, <<>>)
    /\ UNCHANGED <<prefix, key_arn, nextKey, proc, track, stacks, ctl, env>>

NextList ==
    \/ \E n \in Names :
           /\ nextKey <= MaxStores
           /\ StoreEncrypt(1, n, <<65>>, "ok", ZeroNonce)
    \/ \E w \in Parts, s \in S3Outcomes : StorePut(1, w, s)
    \/ \E s \in S3Outcomes : All(1, s)
    \/ \E k \in ForeignKeys : PutForeign(k)

InitList ==
    /\ bucket = [o \in {} |-> None]
    /\ prefix \in {NormalizePrefix(p) : p \in Prefixes}
    /\ key_arn = Some("arn:kms:key")
    /\ nextKey = 1
    /\ proc = [p \in Procs |-> Idle]
    /\ track = [n \in Names |-> NoTrack]
    /\ InitAws

SpecList == InitList /\ [][NextList]_vars

(***************************************************************************)
(* SpecNames: one caller of one Vault stores and deletes secrets, lists    *)
(* them, and passes the names of the list, as they are, to exists and to   *)
(* lookup.  The calls follow one another; slot 1 keeps the last list while *)
(* slot 2 runs the exists and lookup calls made with its names.            *)
(***************************************************************************)
\* the names the caller passes: its own, and those a list can return
ListNames == Names \cup {NormalizePrefix(p) \o n : p \in Prefixes, n \in Names}

NamesData == <<65>>

NextNames ==
    \/ /\ proc[2].pc = "idle"
       /\ \/ \E n \in Names :
                /\ nextKey <= MaxStores
                /\ StoreEncrypt(1, n, NamesData, "ok", ZeroNonce)
          \/ \E n \in Names : DeleteExists(1, n, "ok")
          \/ All(1, "ok")
    \/ \E w \in Parts : StorePut(1, w, "ok")
    \/ DeleteObjects(1, "ok")
    \/ /\ proc[1].pc = "idle" /\ proc[1].op = "all" /\ proc[1].result.kind = "ok"
       /\ \E i \in 1..Len(proc[1].result.val) :
             \/ Exists(2, proc[1].result.val[i], "ok")
             \/ LookupCall(2, proc[1].result.val[i])
    \/ \E w \in Parts : LookupGet(2, w, "ok")
    \/ LookupDecrypt(2, "ok")

InitNames ==
    /\ bucket = [o \in {} |-> None]
    /\ prefix \in {NormalizePrefix(p) : p \in Prefixes}
    /\ key_arn = Some("arn:kms:key")
    /\ nextKey = 1
    /\ proc = [p \in Procs |-> Idle]
    /\ track = [n \in ListNames |-> NoTrack]
    /\ InitAws

SpecNames == InitNames /\ [][NextNames]_vars
(***************************************************************************)
(* SpecRace: two tasks share one Vault and store, look up and delete one   *)
(* name with no order between their calls; every service answers.  The     *)
(* k-th store passes the payload RaceData(k), so that the calls pass       *)
(* different data, and each task draws its own nonce.                      *)
(***************************************************************************)
RaceName == <<"a">>
RaceData(k) == <<64 + k>>
RaceNonce(p) == IF p = 1 THEN ZeroNonce ELSE [i \in 1..NonceLen |-> (i * 37) % 256]

NextRace ==
    \E p \in Procs :
        \/ /\ nextKey <= MaxStores
           /\ StoreEncrypt(p, RaceName, RaceData(nextKey), "ok", RaceNonce(p))
        \/ \E w \in Parts : StorePut(p, w, "ok")
        \/ LookupCall(p, RaceName)
        \/ \E w \in Parts : LookupGet(p, w, "ok")
        \/ LookupDecrypt(p, "ok")
        \/ DeleteExists(p, RaceName, "ok")
        \/ DeleteObjects(p, "ok")

InitRace ==
    /\ bucket = [o \in {} |-> None]
    /\ prefix = <<>>
    /\ key_arn = Some("arn:kms:key")
    /\ nextKey = 1
    /\ proc = [p \in Procs |-> Idle]
    /\ track = [n \in Names |-> NoTrack]
    /\ InitAws

SpecRace == InitRace /\ [][NextRace]_vars

(***************************************************************************)
(* The store command of the command line (cli.rs store): unless --overwrite*)
(* is given it asks exists(key) first and bails out when the key is there  *)
(* or the check fails; then it calls Vault::store.                         *)
(***************************************************************************)
\* a check that takes a failed exists for an absent key
CliStoreCheckErrorAsAbsent(overwrite, e) ==
    IF overwrite THEN Ok("store")
    ELSE IF e.kind = "ok" /\ e.val THEN Err("KeyAlreadyExists")
    ELSE Ok("store")

\* lines 117-127: `!overwrite && vault.exists(&key).await.with_context(..)?`;
\* e is what exists returns, and is not asked for with --overwrite
CliStoreCheck(overwrite, e) ==
    IF overwrite THEN Ok("store")
    ELSE IF e.kind # "ok" THEN e
    ELSE IF e.val THEN Err("KeyAlreadyExists")
    ELSE Ok("store")

\* the command up to its first request: with --overwrite that is the store
\* itself, without it the HEAD of exists
CliStore(p, name, data, overwrite, s3, gdk, nonce) ==
    /\ proc[p].pc = "idle"
    /\ LET from == [Idle EXCEPT !.cli = Some([overwrite |-> overwrite]),
                                !.base = track[name]]
       IN  IF overwrite
           THEN /\ CliStoreCheck(overwrite, NoResult) = Ok("store")
                /\ StoreStart(p, from, name, data, gdk, nonce)
           ELSE LET r == CliStoreCheck(overwrite, exists(name, s3))
                    call == [from EXCEPT !.op = "cli_store", !.name = name,
                                         !.reqs = {Request("HEAD", {ExistsKey(name)})},
                                         !.faulted = s3 # "ok"]
                IN  /\ proc' = [proc EXCEPT ![p] =
                                  IF r.kind = "ok"
                                  THEN [call EXCEPT !.pc = "cli_store", !.data = data]
                                  ELSE [call EXCEPT !.result = r]]
                    /\ UNCHANGED <<bucket, prefix, key_arn, nextKey, track, stacks, ctl, env>>

\* lines 129-131: the command goes on to Vault::store
CliStoreProceed(p, gdk, nonce) ==
    /\ proc[p].pc = "cli_store"
    /\ StoreStart(p, [proc[p] EXCEPT !.pc = "idle", !.data = <<>>],
                  proc[p].name, proc[p].data, gdk, nonce)

(***************************************************************************)
(* SpecCli: one user of the command line stores secrets, with and without  *)
(* --overwrite, and deletes them.                                          *)
(***************************************************************************)
CliData == {<<65>>, <<195, 169>>}

NextCli ==
    \/ \E n \in Names, d \in CliData, o \in BOOLEAN, s \in S3Outcomes, g \in {"ok", "error"} :
          /\ (o /\ g = "ok") => nextKey <= MaxStores
          /\ CliStore(1, n, d, o, s, g, ZeroNonce)
    \/ \E g \in {"ok", "error"} :
          /\ g = "ok" => nextKey <= MaxStores
          /\ CliStoreProceed(1, g, ZeroNonce)
    \/ \E w \in Parts, s \in S3Outcomes : StorePut(1, w, s)
    \/ \E n \in Names, s \in S3Outcomes : DeleteExists(1, n, s)
    \/ \E s \in S3Outcomes : DeleteObjects(1, s)

InitCli ==
    /\ bucket = [o \in {} |-> None]
    /\ prefix \in {NormalizePrefix(p) : p \in Prefixes}
    /\ key_arn = Some("arn:kms:key")
    /\ nextKey = 1
    /\ proc = [p \in Procs |-> Idle]
    /\ track = [n \in Names |-> NoTrack]
    /\ InitAws

SpecCli == InitCli /\ [][NextCli]_vars

(***************************************************************************)
(* SpecCliRace: two invocations of the store command without --overwrite,  *)
(* run side by side on one name that is not in the bucket at the start;    *)
(* nothing deletes, and every service answers.                             *)
(***************************************************************************)
NextCliRace ==
    \E p \in Procs :
        \/ \E d \in CliData : CliStore(p, RaceName, d, FALSE, "ok", "ok", RaceNonce(p))
        \/ /\ nextKey <= MaxStores
           /\ CliStoreProceed(p, "ok", RaceNonce(p))
        \/ \E w \in Parts : StorePut(p, w, "ok")

SpecCliRace == InitRace /\ [][NextCliRace]_vars

(***************************************************************************)
(* The delete, lookup and exists commands of the command line: each bails  *)
(* out on a key that is empty once trimmed and calls the library with any  *)
(* other key.  The store command (CliStore above) takes Some(key) as it    *)
(* is.                                                                     *)
(***************************************************************************)
\* key.trim().is_empty()
trim_is_empty(key) == \A i \in 1..Len(key) : key[i] = " "

\* the record of a command that bailed out on its key
CliEmptyKey(command, key) ==
    [Idle EXCEPT !.op = command, !.name = key, !.cli = Some([command |-> command]),
                 !.result = Err("EmptyKey")]

\* cli.rs delete
CliDelete(p, key, s3) ==
    IF trim_is_empty(key)
    THEN /\ proc[p].pc = "idle"
         /\ proc' = [proc EXCEPT ![p] = CliEmptyKey("cli_delete", key)]
         /\ UNCHANGED <<bucket, prefix, key_arn, nextKey, track, stacks, ctl, env>>
    ELSE DeleteExists(p, key, s3)

\* cli.rs lookup
CliLookup(p, key) ==
    IF trim_is_empty(key)
    THEN /\ proc[p].pc = "idle"
         /\ proc' = [proc EXCEPT ![p] = CliEmptyKey("cli_lookup", key)]
         /\ UNCHANGED <<bucket, prefix, key_arn, nextKey, track, stacks, ctl, env>>
    ELSE LookupCall(p, key)

\* cli.rs exists
CliExists(p, key, s3) ==
    IF trim_is_empty(key)
    THEN /\ proc[p].pc = "idle"
         /\ proc' = [proc EXCEPT ![p] = CliEmptyKey("cli_exists", key)]
         /\ UNCHANGED <<bucket, prefix, key_arn, nextKey, track, stacks, ctl, env>>
    ELSE Exists(p, key, s3)

(***************************************************************************)
(* SpecCliKey: one user runs the four commands with keys that are empty,   *)
(* blank or a name.                                                        *)
(***************************************************************************)
CliKeys == {<<>>, <<" ">>, <<"a">>}

NextCliKey ==
    \/ \E k \in CliKeys, o \in BOOLEAN, s \in S3Outcomes :
          /\ o => nextKey <= MaxStores
          /\ CliStore(1, k, <<65>>, o, s, "ok", ZeroNonce)
    \/ /\ nextKey <= MaxStores
       /\ CliStoreProceed(1, "ok", ZeroNonce)
    \/ \E w \in Parts : StorePut(1, w, "ok")
    \/ \E k \in CliKeys, s \in S3Outcomes : CliDelete(1, k, s)
    \/ DeleteObjects(1, "ok")
    \/ \E k \in CliKeys : CliLookup(1, k)
    \/ \E w \in Parts : LookupGet(1, w, "ok")
    \/ LookupDecrypt(1, "ok")
    \/ \E k \in CliKeys, s \in S3Outcomes : CliExists(1, k, s)

InitCliKey ==
    /\ bucket = [o \in {} |-> None]
    /\ prefix \in {NormalizePrefix(p) : p \in Prefixes}
    /\ key_arn = Some("arn:kms:key")
    /\ nextKey = 1
    /\ proc = [p \in Procs |-> Idle]
    /\ track = [n \in CliKeys |-> NoTrack]
    /\ InitAws

SpecCliKey == InitCliKey /\ [][NextCliKey]_vars

(***************************************************************************)
(* The stack controller: Vault::init, Vault::update_stack and the poll     *)
(* loops, against a CloudFormation service whose stacks other actors of    *)
(* the account create, update and delete as well.                          *)
(***************************************************************************)
\* template::VAULT_STACK_VERSION; the template is not part of the sources
\* at hand, the number stands for the embedded version
VAULT_STACK_VERSION == 2

Versions == 1..MaxVersion

Region == "eu-west-1"
AccountId == "123456789012"

get_env_variable(name) == env[name]

\* lines 124-126: argument, then VAULT_STACK, then "vault"
ResolveStackName(vault_stack) ==
    IF vault_stack # None THEN vault_stack.some
    ELSE IF get_env_variable("VAULT_STACK") # None THEN get_env_variable("VAULT_STACK").some
    ELSE "vault"

\* format!("{stack_name}-{region}-{account_id}")
DerivedBucket(stack_name, region, account_id) ==
    [stack_name |-> stack_name, region |-> region, account_id |-> account_id]

\* lines 131-141, the block handed to unwrap_or: sts is what GetCallerIdentity
\* answers, "ok", "error" or "no_account"
CallerBucket(stack_name, sts) ==
    IF sts = "error" THEN Err("CallerIdError")
    ELSE IF sts = "no_account" THEN Err("MissingAccountIdError")
    ELSE Ok(DerivedBucket(stack_name, Region, AccountId))

\* lines 128-142: the argument of unwrap_or is evaluated before unwrap_or is
\* called, so the block runs, and its `?` and `return` leave init, whatever
\* the bucket argument and VAULT_BUCKET are: [bucket, reqs]
InitBucket(vault_bucket, stack_name, sts) ==
    LET given == IF vault_bucket # None THEN vault_bucket ELSE get_env_variable("VAULT_BUCKET")
        derived == CallerBucket(stack_name, sts)
    IN  [bucket |-> IF derived.kind # "ok" THEN derived
                    ELSE IF given # None THEN Ok(given.some)
                    ELSE derived,
         reqs |-> {"GetCallerIdentity"}]

\* the statuses of a stack that is there and at rest
StableStatuses == {"CREATE_COMPLETE", "CREATE_FAILED", "ROLLBACK_COMPLETE", "ROLLBACK_FAILED",
                   "UPDATE_COMPLETE", "UPDATE_FAILED", "UPDATE_ROLLBACK_COMPLETE"}

\* the statuses in which the service accepts UpdateStack
UpdatableStatuses == {"CREATE_COMPLETE", "UPDATE_COMPLETE", "UPDATE_ROLLBACK_COMPLETE"}

\* the statuses the service moves a stack to by itself
ServiceNext(status) ==
    CASE status = "CREATE_IN_PROGRESS" -> {"CREATE_COMPLETE", "CREATE_FAILED", "ROLLBACK_IN_PROGRESS"}
      [] status = "ROLLBACK_IN_PROGRESS" -> {"ROLLBACK_COMPLETE", "ROLLBACK_FAILED"}
      [] status = "UPDATE_IN_PROGRESS" -> {"UPDATE_COMPLETE", "UPDATE_FAILED",
                                           "UPDATE_ROLLBACK_IN_PROGRESS"}
      [] status = "UPDATE_ROLLBACK_IN_PROGRESS" -> {"UPDATE_ROLLBACK_COMPLETE"}
      [] status = "DELETE_IN_PROGRESS" -> {"NONE"}
      [] OTHER -> {}

\* DescribeStacks of a name: cf is what the service does with the request,
\* "ok", "error", or "no_status" (an answer without stack status)
DescribeStacks(stack_name, cf) ==
    IF cf = "error" \/ stacks[stack_name].status = "NONE" THEN Err("DescribeStackError")
    ELSE Ok([status |-> IF cf = "no_status" THEN None ELSE Some(stacks[stack_name].status),
             bucket_name |-> stacks[stack_name].bucket,
             key_arn |-> stacks[stack_name].key,
             version |-> stacks[stack_name].version])

\* Vault::describe_stack
describe_stack(stack_name, cf) == DescribeStacks(stack_name, cf)

\* Vault::get_cloudformation_stack_data
get_cloudformation_stack_data(stack_name, cf) == DescribeStacks(stack_name, cf)

\* the variables of the secrets, which the stack controller leaves alone
VaultVars == <<bucket, prefix, key_arn, nextKey, proc, track>>

\* the service moves a stack on; a completed creation or update deploys the
\* version of the template that was submitted
StackService(n, to) ==
    /\ to \in ServiceNext(stacks[n].status)
    /\ stacks' = [stacks EXCEPT ![n] =
           IF to = "NONE" THEN NoStack
           ELSE IF to \in {"CREATE_COMPLETE", "UPDATE_COMPLETE"}
                THEN [@ EXCEPT !.status = to, !.version = stacks[n].target]
           ELSE [@ EXCEPT !.status = to]]
    /\ UNCHANGED <<VaultVars, ctl, env>>

\* another user of the account creates, updates or deletes the stack; t is
\* the version output of the template they submit, if it has one
OtherActor(n, what, t) ==
    /\ \/ /\ what = "create"
          /\ stacks[n].status = "NONE"
          /\ stacks' = [stacks EXCEPT ![n] =
                 [NoStack EXCEPT !.status = "CREATE_IN_PROGRESS", !.target = t,
                                 !.bucket = Some(DerivedBucket(n, Region, AccountId)),
                                 !.key = Some("arn:kms:key")]]
       \/ /\ what = "update"
          /\ stacks[n].status \in UpdatableStatuses
          /\ stacks' = [stacks EXCEPT ![n] =
                 [@ EXCEPT !.status = "UPDATE_IN_PROGRESS", !.target = t]]
       \/ /\ what = "delete"
          /\ t = None
          /\ stacks[n].status \in StableStatuses
          /\ stacks' = [stacks EXCEPT ![n] =
                 [@ EXCEPT !.status = "DELETE_IN_PROGRESS", !.inited = FALSE]]
    /\ UNCHANGED <<VaultVars, ctl, env>>

\* lines 146-157: where init goes after describe_stack
InitAfterDescribeAlwaysCreate(found) == "init_create"

InitAfterDescribe(found) == IF found THEN "init_exists" ELSE "init_create"

\* Vault::init up to its first request to CloudFormation (lines 107-144).
\* loop names the wait that follows a creation: the one of init itself, or
\* the one of the command line's init_vault_stack
InitCall(vault_stack, vault_bucket, sts, loop) ==
    /\ ctl.pc = "idle"
    /\ LET stack_name == ResolveStackName(vault_stack)
           b == InitBucket(vault_bucket, stack_name, sts)
           ok == b.bucket.kind = "ok"
       IN  ctl' = [CtlIdle EXCEPT
                     !.op = "init",
                     !.args = Some([vault_stack |-> vault_stack, bucket |-> vault_bucket]),
                     !.stack_name = stack_name,
                     !.loop = loop,
                     !.reqs = b.reqs,
                     !.faulted = sts # "ok",
                     !.bucket = IF ok THEN Some(b.bucket.val) ELSE None,
                     !.pc = IF ok THEN "init_describe" ELSE "idle",
                     !.result = IF ok THEN NoResult ELSE b.bucket]
    /\ UNCHANGED <<VaultVars, stacks, env>>

\* line 146: describe_stack(..).is_ok()
InitDescribe(cf) ==
    /\ ctl.pc = "init_describe"
    /\ LET found == describe_stack(ctl.stack_name, cf).kind = "ok"
       IN  ctl' = [ctl EXCEPT !.reqs = @ \cup {"DescribeStacks"},
                              !.faulted = @ \/ cf = "error",
                              !.found = Some(found),
                              !.pc = InitAfterDescribe(found)]
    /\ UNCHANGED <<VaultVars, stacks, env>>

\* lines 147-152: the stack is there, its data are read and printed
InitExists(cf) ==
    /\ ctl.pc = "init_exists"
    /\ LET r == get_cloudformation_stack_data(ctl.stack_name, cf)
       IN  ctl' = [ctl EXCEPT !.reqs = @ \cup {"DescribeStacks"},
                              !.faulted = @ \/ cf = "error",
                              !.pc = "idle",
                              !.result = IF r.kind = "ok"
                                         THEN Ok([outcome |-> "Exists"])
                                         ELSE r]
    /\ UNCHANGED <<VaultVars, stacks, env>>

\* lines 154-170: CreateStack with the bucket as paramBucketName; the service
\* refuses the name of a stack that is there
InitCreate(cf) ==
    /\ ctl.pc = "init_create"
    /\ LET refused == cf = "error" \/ stacks[ctl.stack_name].status # "NONE"
       IN  /\ ctl' = [ctl EXCEPT !.reqs = @ \cup {"CreateStack"},
                                 !.faulted = @ \/ cf = "error",
                                 !.pc = IF refused THEN "idle" ELSE "wait",
                                 !.report = IF refused THEN None
                                            ELSE Some([outcome |-> "Created"]),
                                 !.result = IF refused THEN Err("CreateStackError")
                                            ELSE NoResult]
           /\ stacks' = IF refused THEN stacks
                        ELSE [stacks EXCEPT ![ctl.stack_name] =
                                [NoStack EXCEPT !.status = "CREATE_IN_PROGRESS",
                                                !.target = Some(VAULT_STACK_VERSION),
                                                !.bucket = ctl.bucket,
                                                !.key = Some("arn:kms:key")]]
    /\ UNCHANGED <<VaultVars, env>>

\* Vault::wait_for_stack_creation, one round of its loop on the stack data
\* it read: "success", "failure" or "again"
wait_for_stack_creation(status) ==
    IF status = None THEN "again"
    ELSE IF status.some = "CREATE_COMPLETE" THEN "success"
    ELSE IF status.some \in {"CREATE_FAILED", "ROLLBACK_FAILED", "ROLLBACK_COMPLETE"}
         THEN "failure"
    ELSE "again"

\* cli.rs wait_for_stack_creation_to_finish, one round
wait_for_stack_creation_to_finish(status) ==
    IF status = None THEN "failure"
    ELSE IF status.some = "CREATE_COMPLETE" THEN "success"
    ELSE IF status.some \in {"CREATE_FAILED", "ROLLBACK_FAILED", "ROLLBACK_COMPLETE"}
         THEN "failure"
    ELSE "again"

\* cli.rs wait_for_stack_update_to_finish, one round
wait_for_stack_update_to_finish(status) ==
    IF status = None THEN "failure"
    ELSE IF status.some = "UPDATE_COMPLETE" THEN "success"
    ELSE IF status.some \in {"UPDATE_FAILED", "ROLLBACK_FAILED"} THEN "failure"
    ELSE "again"

PollVerdict(loop, status) ==
    CASE loop = "vault_create" -> wait_for_stack_creation(status)
      [] loop = "cli_create" -> wait_for_stack_creation_to_finish(status)
      [] loop = "cli_update" -> wait_for_stack_update_to_finish(status)

\* one round of the poll loop the call is in: the stack is described, and
\* the loop returns or goes round again
Poll(cf) ==
    /\ ctl.pc = "wait"
    /\ LET r == get_cloudformation_stack_data(ctl.stack_name, cf)
           verdict == IF r.kind = "ok" THEN PollVerdict(ctl.loop, r.val.status)
                      ELSE "failure"
       IN  /\ ctl' = [ctl EXCEPT
                        !.reqs = @ \cup {"DescribeStacks"},
                        !.faulted = @ \/ cf # "ok",
                        !.seen = IF r.kind = "ok" THEN r.val.status ELSE None,
                        !.pc = IF verdict = "again" THEN "wait" ELSE "idle",
                        !.round = IF verdict = "again" THEN 1 - @ ELSE 0,
                        !.result = IF r.kind # "ok" THEN r
                                   ELSE IF verdict = "success" THEN Ok(ctl.report.some)
                                   ELSE IF verdict = "failure" THEN Err("WaitFailed")
                                   ELSE NoResult]
           /\ stacks' = IF verdict = "success" /\ ctl.op = "init"
                        THEN [stacks EXCEPT ![ctl.stack_name].inited = TRUE]
                        ELSE stacks
    /\ UNCHANGED <<VaultVars, env>>

\* lines 179-212, up to the decision: the deployed version is read and
\* compared with the version of the embedded template
UpdateDecisionAtMost(data) ==
    IF data.version = None THEN Err("StackVersionNotFoundError")
    ELSE IF data.version.some <= VAULT_STACK_VERSION
         THEN Ok([outcome |-> "Updated", previous_version |-> data.version.some,
                  new_version |-> VAULT_STACK_VERSION])
    ELSE Ok([outcome |-> "UpToDate"])

UpdateDecision(data) ==
    IF data.version = None THEN Err("StackVersionNotFoundError")
    ELSE IF data.version.some < VAULT_STACK_VERSION
         THEN Ok([outcome |-> "Updated", previous_version |-> data.version.some,
                  new_version |-> VAULT_STACK_VERSION])
    ELSE Ok([outcome |-> "UpToDate"])

\* Vault::update_stack of the Vault of stack `stack_name`, up to the decision
UpdateCall(stack_name, cf) ==
    /\ ctl.pc = "idle"
    /\ LET r == get_cloudformation_stack_data(stack_name, cf)
           d == IF r.kind = "ok" THEN UpdateDecision(r.val) ELSE r
           submit == d.kind = "ok" /\ d.val.outcome = "Updated"
       IN  ctl' = [CtlIdle EXCEPT
                     !.op = "update",
                     !.stack_name = stack_name,
                     !.loop = "cli_update",
                     !.reqs = {"DescribeStacks"},
                     !.faulted = cf = "error",
                     !.deployed = IF r.kind = "ok" THEN Some(r.val.version) ELSE None,
                     !.report = IF submit THEN Some(d.val) ELSE None,
                     !.pc = IF submit THEN "update_submit" ELSE "idle",
                     !.result = IF submit THEN NoResult ELSE d]
    /\ UNCHANGED <<VaultVars, stacks, env>>

\* lines 192-202: UpdateStack with the embedded template; the service
\* refuses a stack that is not there or not at rest
UpdateSubmit(cf) ==
    /\ ctl.pc = "update_submit"
    /\ LET refused == cf = "error" \/ stacks[ctl.stack_name].status \notin UpdatableStatuses
       IN  /\ ctl' = [ctl EXCEPT !.reqs = @ \cup {"UpdateStack"},
                                 !.faulted = @ \/ cf = "error",
                                 !.pc = IF refused THEN "idle" ELSE "wait",
                                 !.result = IF refused THEN Err("UpdateStackError")
                                            ELSE NoResult]
           /\ stacks' = IF refused THEN stacks
                        ELSE [stacks EXCEPT ![ctl.stack_name] =
                                [@ EXCEPT !.status = "UPDATE_IN_PROGRESS",
                                          !.target = Some(VAULT_STACK_VERSION)]]
    /\ UNCHANGED <<VaultVars, env>>

(***************************************************************************)
(* SpecStack: one operator initialises and updates the stacks of an        *)
(* account in which others act on the same stacks.                         *)
(***************************************************************************)
CfOutcomes == {"ok", "error"}
StsOutcomes == {"ok", "error", "no_account"}
GivenBucket == [name |-> "my-bucket"]
\* the templates of the others have no version output, the oldest version
\* or the newest
Targets == {None, Some(1), Some(MaxVersion)}
\* the stack the others share with the operator
Shared == {"v1"}

NextStack ==
    \/ \E vs \in {Some("v1")}, vb \in {None, Some(GivenBucket)}, sts \in StsOutcomes,
          loop \in {"vault_create", "cli_create"} : InitCall(vs, vb, sts, loop)
    \/ \E cf \in CfOutcomes : InitDescribe(cf)
    \/ \E cf \in CfOutcomes : InitExists(cf)
    \/ \E cf \in CfOutcomes : InitCreate(cf)
    \/ \E cf \in CfOutcomes \cup {"no_status"} : Poll(cf)
    \/ \E n \in Shared, cf \in CfOutcomes : UpdateCall(n, cf)
    \/ \E cf \in CfOutcomes : UpdateSubmit(cf)
    \/ \E n \in StackNames, to \in {"NONE"} \cup StableStatuses \cup
             {"ROLLBACK_IN_PROGRESS", "UPDATE_ROLLBACK_IN_PROGRESS"} : StackService(n, to)
    \/ \E n \in Shared, what \in {"create", "update", "delete"}, t \in Targets :
          OtherActor(n, what, t)

InitStack ==
    /\ bucket = [o \in {} |-> None]
    /\ prefix = <<>>
    /\ key_arn = None
    /\ nextKey = 1
    /\ proc = [p \in Procs |-> Idle]
    /\ track = [n \in Names |-> NoTrack]
    /\ stacks = [n \in StackNames |-> NoStack]
    /\ ctl = CtlIdle
    /\ env \in {[NoEnv EXCEPT !.VAULT_BUCKET = b] : b \in {None, Some([name |-> "env-bucket"])}}

SpecStack == InitStack /\ [][NextStack]_vars

\* a poll loop that has not returned sleeps and describes the stack again
SpecStackFair == SpecStack /\ WF_vars(\E cf \in CfOutcomes \cup {"no_status"} : Poll(cf))

(***************************************************************************)
(* Vault::new: where the stack name, the bucket, the key and the prefix of *)
(* a Vault come from.                                                      *)
(***************************************************************************)
\* CloudFormationParams::get_from_stack: bucket and key are both read from
\* the outputs of the stack
get_from_stack(stack, cf) ==
    LET r == DescribeStacks(stack, cf)
    IN  IF r.kind # "ok" THEN r
        ELSE IF r.val.bucket_name = None THEN Err("BucketNameMissingError")
        ELSE Ok([bucket_name |-> r.val.bucket_name.some, key_arn |-> r.val.key_arn])

\* Option::or
OrElse(a, b) == IF a # None THEN a ELSE b

\* vault.rs Vault::new, lines 76-94: [params, reqs]
vault_new(vault_stack, vault_bucket, key, vault_prefix, cf) ==
    LET stack_name == OrElse(OrElse(vault_stack, get_env_variable("VAULT_STACK")),
                             Some("vault")).some
        b == OrElse(vault_bucket, get_env_variable("VAULT_BUCKET"))
        k == OrElse(key, get_env_variable("VAULT_KEY"))
        pfx == NormalizePrefix(OrElse(OrElse(vault_prefix, get_env_variable("VAULT_PREFIX")),
                                      Some(<<>>)).some)
        loaded == get_from_stack(stack_name, cf)
    IN  IF b # None /\ k # None
        THEN [params |-> Ok([stack_name |-> stack_name, bucket_name |-> b.some,
                             key_arn |-> k, prefix |-> pfx]),
              reqs |-> {}]
        ELSE [params |-> IF loaded.kind # "ok" THEN loaded
                         ELSE Ok([stack_name |-> stack_name,
                                  bucket_name |-> loaded.val.bucket_name,
                                  key_arn |-> loaded.val.key_arn, prefix |-> pfx]),
              reqs |-> {"DescribeStacks"}]

\* lib.rs Vault::new, lines 185-199: bucket and key come from the environment
\* only, VAULT_STACK goes before the argument, and there is no prefix
lib_new(vault_stack, cf) ==
    LET b == get_env_variable("VAULT_BUCKET")
        k == get_env_variable("VAULT_KEY")
        stack_name == OrElse(OrElse(get_env_variable("VAULT_STACK"), vault_stack),
                             Some("vault")).some
        loaded == get_from_stack(stack_name, cf)
    IN  IF b # None /\ k # None
        THEN [params |-> Ok([stack_name |-> stack_name, bucket_name |-> b.some,
                             key_arn |-> k, prefix |-> <<>>]),
              reqs |-> {}]
        ELSE [params |-> IF loaded.kind # "ok" THEN loaded
                         ELSE Ok([stack_name |-> stack_name,
                                  bucket_name |-> loaded.val.bucket_name,
                                  key_arn |-> loaded.val.key_arn, prefix |-> <<>>]),
              reqs |-> {"DescribeStacks"}]

\* a Vault is constructed by vault.rs Vault::new
New(vault_stack, vault_bucket, key, vault_prefix, cf) ==
    /\ ctl.pc = "idle"
    /\ LET r == vault_new(vault_stack, vault_bucket, key, vault_prefix, cf)
       IN  ctl' = [CtlIdle EXCEPT
                     !.op = "new",
                     !.args = Some([vault_stack |-> vault_stack, bucket |-> vault_bucket,
                                    key |-> key, prefix |-> vault_prefix]),
                     !.reqs = r.reqs,
                     !.faulted = cf = "error" /\ r.reqs # {},
                     !.result = r.params]
    /\ UNCHANGED <<VaultVars, stacks, env>>

\* a Vault is constructed by lib.rs Vault::new
LibNew(vault_stack, cf) ==
    /\ ctl.pc = "idle"
    /\ LET r == lib_new(vault_stack, cf)
       IN  ctl' = [CtlIdle EXCEPT
                     !.op = "lib_new",
                     !.args = Some([vault_stack |-> vault_stack, bucket |-> None,
                                    key |-> None, prefix |-> None]),
                     !.reqs = r.reqs,
                     !.faulted = cf = "error" /\ r.reqs # {},
                     !.result = r.params]
    /\ UNCHANGED <<VaultVars, stacks, env>>

(***************************************************************************)
(* SpecNew: Vaults are constructed with every combination of arguments,    *)
(* in every environment, in an account whose stacks are there or not and   *)
(* have or lack their outputs.                                             *)
(***************************************************************************)
ArgBucket == [name |-> "arg-bucket"]
EnvBucket == [name |-> "env-bucket"]
StackBucket(n) == [name |-> "bucket-of", stack |-> n]
StackKey(n) == Some([arn |-> "key-of", stack |-> n])

\* the stack n with its outputs: complete, without the key output, or
\* without any output
StackShapes(n) ==
    {NoStack,
     [NoStack EXCEPT !.status = "CREATE_COMPLETE", !.bucket = Some(StackBucket(n)),
                     !.key = StackKey(n), !.version = Some(VAULT_STACK_VERSION)],
     [NoStack EXCEPT !.status = "CREATE_COMPLETE", !.bucket = Some(StackBucket(n)),
                     !.version = Some(VAULT_STACK_VERSION)],
     [NoStack EXCEPT !.status = "CREATE_COMPLETE"]}

NextNew ==
    \/ \E vs \in {None, Some("v1")}, vb \in {None, Some(ArgBucket)},
          k \in {None, Some([arn |-> "arg-key"])}, vp \in {None, Some(<<"t">>)},
          cf \in CfOutcomes : New(vs, vb, k, vp, cf)
    \/ \E vs \in {None, Some("v1")}, cf \in CfOutcomes : LibNew(vs, cf)

InitNew ==
    /\ bucket = [o \in {} |-> None]
    /\ prefix = <<>>
    /\ key_arn = None
    /\ nextKey = 1
    /\ proc = [p \in Procs |-> Idle]
    /\ track = [n \in Names |-> NoTrack]
    /\ stacks \in {f \in [StackNames -> UNION {StackShapes(n) : n \in StackNames}] :
                      \A n \in StackNames : f[n] \in StackShapes(n)}
    /\ ctl = CtlIdle
    /\ env \in [VAULT_STACK : {None, Some("e1")}, VAULT_BUCKET : {None, Some(EnvBucket)},
                 VAULT_KEY : {None, Some([arn |-> "env-key"])},
                 VAULT_PREFIX : {None, Some(<<"e", "/">>)}]

SpecNew == InitNew /\ [][NextNew]_vars

(***************************************************************************)
(* Value::from_path, Value::from_stdin and the command line's read_value:  *)
(* the value of a store command, from its arguments, a file or standard    *)
(* input.                                                                  *)
(***************************************************************************)
\* the character of a byte of the contents: "A", "Q", "=", and "?" for every
\* byte that is no symbol of the base64 alphabet
CharOfByte(b) ==
    CASE b = 65 -> "A"
      [] b = 81 -> "Q"
      [] b = 61 -> "="
      [] OTHER -> "?"

\* Value::from_possibly_base64_encoded, on the bytes of the string
from_possibly_base64_encoded(value) ==
    LET d == B64Decode([i \in 1..Len(value) |-> CharOfByte(value[i])])
    IN  IF d.ok THEN BinaryValue(d.bytes) ELSE Utf8Value(value)

\* Value::from_path on a file with these bytes
from_path(content) ==
    IF IsUtf8(content) THEN from_possibly_base64_encoded(content)
    ELSE BinaryValue(content)

\* Value::from_stdin on these bytes up to EOF
from_stdin(bytes) ==
    IF IsUtf8(bytes) THEN from_possibly_base64_encoded(bytes)
    ELSE BinaryValue(bytes)

\* cli.rs read_value: the value argument is taken as text, "-" and --file
\* read standard input or the file
read_value(source, content) ==
    CASE source = "value" -> Utf8Value(content)
      [] source = "stdin" -> from_stdin(content)
      [] source = "file" -> from_path(content)

ReadValue(source, content) ==
    /\ ctl.pc = "idle"
    /\ ctl' = [CtlIdle EXCEPT !.op = "read_value",
                              !.args = Some([source |-> source, content |-> content]),
                              !.result = Ok(read_value(source, content))]
    /\ UNCHANGED <<VaultVars, stacks, env>>

(***************************************************************************)
(* SpecValue: values are read from every content of up to MaxContent bytes *)
(* drawn from "A", "Q", "=" and the first byte of a two-byte character.    *)
(***************************************************************************)
ContentBytes == {65, 81, 61, 195}
Contents == UNION {[1..n -> ContentBytes] : n \in 0..MaxContent}

NextValue ==
    \E source \in {"value", "stdin", "file"}, content \in Contents :
        /\ source = "value" => IsUtf8(content)
        /\ ReadValue(source, content)

InitValue ==
    /\ bucket = [o \in {} |-> None]
    /\ prefix = <<>>
    /\ key_arn = None
    /\ nextKey = 1
    /\ proc = [p \in Procs |-> Idle]
    /\ track = [n \in Names |-> NoTrack]
    /\ InitAws

SpecValue == InitValue /\ [][NextValue]_vars

(***************************************************************************)
(* Properties.                                                             *)
(***************************************************************************)
\* client p is back from a call of `op`
Returned(p, op) ==
    /\ proc[p].pc = "idle"
    /\ proc[p].op = op
    /\ proc[p].result.kind # "none"

\* the lookup p is back from started on objects an undisturbed successful
\* store left, changed since as `how` says, and every service answered
LookedUp(p, how) ==
    /\ Returned(p, "lookup")
    /\ proc[p].base.stored
    /\ proc[p].base.tamper = how
    /\ proc[p].alone
    /\ ~proc[p].faulted

ObjectKey(name, suffix) == prefix \o name \o suffix

HasPut(p, name, suffix) == Request("PUT", {ObjectKey(name, suffix)}) \in proc[p].reqs

\* C1: a lookup of n that follows a successful store(n, d), with nothing else
\* touching n and the services answering, returns Ok with the bytes d, as
\* Utf8 when d is valid UTF-8 (the empty payload included) and as Binary
\* otherwise.
C1_RoundTrip ==
    \A p \in Procs :
        LookedUp(p, "none") =>
            LET d == proc[p].base.data
                r == proc[p].result
            IN  /\ r.kind = "ok"
                /\ r.val.bytes = d
                /\ r.val.tag = (IF d \in {<<>>, <<65>>, <<195, 169>>} THEN "Utf8" ELSE "Binary")

C1_Witness ==
    \E p \in Procs :
        /\ LookedUp(p, "none")
        /\ proc[p].base.data = <<195>>
        /\ proc[p].result = Ok(BinaryValue(<<195>>))

\* C2: store reports success only when all three PUTs were issued and
\* succeeded, the three objects then holding what this call encrypted; a
\* failed PUT ends the call with the S3 put error at once and leaves the
\* bucket, with whatever the earlier PUTs of the call wrote, as it is.
C2_StoreAllOrError ==
    [][\A p \in Procs :
          (proc[p].pc = "store_puts" /\ proc'[p].pc = "idle") =>
              LET c == proc[p]
                  keys == [w \in Parts |->
                             ObjectKey(c.name, CASE w = "cipher" -> CipherSuffix
                                                 [] w = "key" -> KeySuffix
                                                 [] w = "meta" -> MetaSuffix)]
                  body == [w \in Parts |->
                             CASE w = "cipher" -> c.enc.aes_gcm_ciphertext
                               [] w = "key" -> c.enc.data_key
                               [] w = "meta" -> c.enc.meta]
              IN  IF proc'[p].result.kind = "ok"
                  THEN /\ \A w \in Parts : Request("PUT", {keys[w]}) \in proc'[p].reqs
                       /\ ~proc'[p].faulted
                       /\ \A w \in Parts : keys[w] \in DOMAIN bucket' /\ bucket'[keys[w]] = body[w]
                  ELSE /\ proc'[p].result = Err("S3PutObjectError")
                       /\ bucket' = bucket
                       /\ c.alone =>
                            \A w \in Parts \ c.pending :
                                keys[w] \in DOMAIN bucket' /\ bucket'[keys[w]] = body[w]
      ]_vars

\* a store that failed after two of its PUTs: the .key and .meta objects of
\* the name are there, the .aesgcm.encrypted object is not
C2_Witness ==
    \E p \in Procs :
        /\ Returned(p, "store")
        /\ proc[p].result = Err("S3PutObjectError")
        /\ HasPut(p, proc[p].name, KeySuffix) /\ HasPut(p, proc[p].name, MetaSuffix)
        /\ ObjectKey(proc[p].name, KeySuffix) \in DOMAIN bucket
        /\ ObjectKey(proc[p].name, MetaSuffix) \in DOMAIN bucket
        /\ ObjectKey(proc[p].name, CipherSuffix) \notin DOMAIN bucket

\* C3: the aad lookup hands to the AEAD is byte for byte the .meta body it
\* read, store seals the payload with byte for byte the text it writes to
\* .meta, and a .meta replaced by a JSON text that parses to the same alg
\* and nonce but differs in bytes makes lookup fail with NonceDecryptError.
C3_AadIsMetaBytes ==
    \A p \in Procs :
        /\ (Returned(p, "lookup") /\ proc[p].aad # None) =>
               proc[p].aad.some = proc[p].got.meta
        /\ proc[p].pc = "store_puts" =>
               proc[p].enc.aes_gcm_ciphertext.tag.a = proc[p].enc.meta
        /\ \A n \in Names :
               Untouched(n) =>
                   bucket[ObjectKey(n, CipherSuffix)].tag.a = bucket[ObjectKey(n, MetaSuffix)]
        /\ LookedUp(p, "meta_reformat") =>
               /\ MetaFromSlice(proc[p].got.meta).ok
               /\ proc[p].got.meta # bucket[ObjectKey(proc[p].name, CipherSuffix)].tag.a
               /\ proc[p].result = Err("NonceDecryptError")

\* a lookup of a .meta with a space after the comma failed to authenticate
C3_Witness ==
    \E p \in Procs :
        /\ LookedUp(p, "meta_reformat")
        /\ Len(proc[p].got.meta) = MetaLen + 1
        /\ proc[p].got.meta[25] = " "
        /\ proc[p].aad = Some(proc[p].got.meta)
        /\ proc[p].result = Err("NonceDecryptError")

\* C4 as stated: after a successful store, a lookup of a .meta with one byte
\* changed fails with NonceDecryptError and in no other way.
C4_MetaByteAlwaysNonceDecrypt ==
    \A p \in Procs :
        LookedUp(p, "meta_byte") => proc[p].result = Err("NonceDecryptError")

\* C4 (amended): after a successful store, a lookup of a .meta with one byte
\* changed never returns a value.  It fails with EncryptObjectMetaToJsonError
\* when the text no longer parses as a Meta, with NonceParseError when the
\* nonce is no longer base64, it panics when the nonce decodes to a length
\* other than 12, and it fails with NonceDecryptError in every other case.
C4_MetaByteNeverOpens ==
    \A p \in Procs :
        LookedUp(p, "meta_byte") =>
            LET m == proc[p].got.meta
                meta == MetaFromSlice(m)
                nonce == B64Decode(meta.nonce)
                r == proc[p].result
            IN  /\ r.kind # "ok"
                /\ r = Err("EncryptObjectMetaToJsonError") <=> ~meta.ok
                /\ r = Err("NonceParseError") <=> (meta.ok /\ ~nonce.ok)
                /\ r = Panic <=> (meta.ok /\ nonce.ok /\ Len(nonce.bytes) # NonceLen)
                /\ r = Err("NonceDecryptError")
                       <=> (meta.ok /\ nonce.ok /\ Len(nonce.bytes) = NonceLen)

\* a lookup of a .meta whose alg value had a byte changed: it parses, the
\* nonce is the stored one, and the AEAD rejects the aad
C4_Witness ==
    \E p \in Procs :
        /\ LookedUp(p, "meta_byte")
        /\ MetaFromSlice(proc[p].got.meta).ok
        /\ MetaFromSlice(proc[p].got.meta).alg # AlgAesGcm
        /\ proc[p].result = Err("NonceDecryptError")

\* C5: after a successful store, a lookup of an .aesgcm.encrypted object with
\* one byte changed, in the payload or in the tag, fails with
\* NonceDecryptError and returns no value.
C5_CipherByteNonceDecrypt ==
    \A p \in Procs :
        LookedUp(p, "cipher_byte") =>
            /\ proc[p].result.kind # "ok"
            /\ proc[p].result = Err("NonceDecryptError")

\* a lookup after a byte of the masked payload was changed, and one after a
\* byte of the tag was
C5_Witness ==
    \E p \in Procs :
        /\ LookedUp(p, "cipher_byte")
        /\ Len(proc[p].got.cipher.body) = 2
        /\ proc[p].got.cipher.tag.x = 0
        /\ proc[p].got.cipher.body # proc[p].got.cipher.tag.c
        /\ proc[p].result = Err("NonceDecryptError")

\* client p made a call of `op` in this step
Called(p, op) ==
    /\ proc[p].pc = "idle"
    /\ proc'[p] # proc[p]
    /\ proc'[p].op = op

AllPresent(b, name) ==
    \A x \in {KeySuffix, CipherSuffix, MetaSuffix} : ObjectKey(name, x) \in DOMAIN b

NonePresent(b, name) ==
    \A x \in {KeySuffix, CipherSuffix, MetaSuffix} : ObjectKey(name, x) \notin DOMAIN b

Deletes(p) == {r \in proc[p].reqs : r.verb = "DELETE"}

KeyMissing == Err("S3DeleteObjectKeyMissingError")

\* C6: exists(n) sends one request, a HEAD of <prefix+n>.key; it returns true
\* exactly when that object is there, whatever the siblings, false on the
\* typed not-found, and the error, never false, on any other failure.
C6_ExistsHeadsKeyOnly ==
    [][\A p \in Procs :
          Called(p, "exists") =>
              LET c == proc'[p]
                  k == ObjectKey(c.name, KeySuffix)
              IN  /\ c.pc = "idle"
                  /\ c.reqs = {Request("HEAD", {k})}
                  /\ bucket' = bucket
                  /\ c.result = IF c.faulted THEN Err("S3HeadObjectError")
                                ELSE Ok(k \in DOMAIN bucket)
      ]_vars

\* exists answered false although the .aesgcm.encrypted and .meta objects of
\* the name are there, under a prefix
C6_Witness ==
    \E p \in Procs :
        /\ Returned(p, "exists")
        /\ prefix # <<>>
        /\ proc[p].result = Ok(FALSE)
        /\ ObjectKey(proc[p].name, CipherSuffix) \in DOMAIN bucket
        /\ ObjectKey(proc[p].name, MetaSuffix) \in DOMAIN bucket

\* C7: delete(n) first sends the HEAD of exists(n); when the answer is false
\* it returns the key-missing error, when exists fails it returns that error,
\* and in both cases it sends no delete request and the bucket is unchanged.
C7_DeleteChecksExists ==
    [][\A p \in Procs :
          /\ Called(p, "delete") =>
                 LET c == proc'[p]
                     k == ObjectKey(c.name, KeySuffix)
                 IN  /\ c.reqs = {Request("HEAD", {k})}
                     /\ bucket' = bucket
                     /\ c.faulted => (c.pc = "idle" /\ c.result = Err("S3HeadObjectError"))
                     /\ (~c.faulted /\ k \notin DOMAIN bucket) =>
                            (c.pc = "idle" /\ c.result = KeyMissing)
                     /\ (~c.faulted /\ k \in DOMAIN bucket) => c.pc = "delete_objects"
          /\ (proc'[p].op = "delete"
                /\ proc'[p].result \in {KeyMissing, Err("S3HeadObjectError")}) =>
                 {r \in proc'[p].reqs : r.verb = "DELETE"} = {}
      ]_vars

\* delete returned the key-missing error without a delete request while the
\* sibling objects of the name are in the bucket
C7_Witness ==
    \E p \in Procs :
        /\ Returned(p, "delete")
        /\ proc[p].result = KeyMissing
        /\ Deletes(p) = {}
        /\ ObjectKey(proc[p].name, CipherSuffix) \in DOMAIN bucket
        /\ ObjectKey(proc[p].name, MetaSuffix) \in DOMAIN bucket

\* C8: once store(n, d) has succeeded the three objects are there, exists(n)
\* answers true and delete(n) succeeds with one batched request naming the
\* three objects; from then on, until n is stored again, none of the three
\* is there, exists(n) answers false and delete(n) fails with the
\* key-missing error (the services answering throughout).
C8_StoreDeleteCycle ==
    [][\A p \in Procs :
          LET c == proc'[p]
              n == c.name
          IN  /\ \A m \in Names :
                     /\ track'[m].stored => AllPresent(bucket', m)
                     /\ track'[m].deleted => NonePresent(bucket', m)
              /\ (Called(p, "exists") /\ ~c.faulted) =>
                     /\ track[n].stored => c.result = Ok(TRUE)
                     /\ track[n].deleted => c.result = Ok(FALSE)
              /\ (Called(p, "delete") /\ ~c.faulted) =>
                     /\ track[n].stored => c.pc = "delete_objects"
                     /\ track[n].deleted => (c.pc = "idle" /\ c.result = KeyMissing)
              /\ (proc[p].pc = "delete_objects" /\ c.pc = "idle" /\ ~c.faulted) =>
                     /\ c.result = Ok("unit")
                     /\ {r \in c.reqs : r.verb = "DELETE"}
                            = {Request("DELETE", {ObjectKey(n, KeySuffix),
                                                  ObjectKey(n, CipherSuffix),
                                                  ObjectKey(n, MetaSuffix)})}
                     /\ (track[n].stored /\ c.alone) =>
                            (NonePresent(bucket', n) /\ track'[n].deleted)
      ]_vars

\* a second delete of a name that was stored and deleted failed
C8_Witness ==
    \E p \in Procs :
        /\ Returned(p, "delete")
        /\ track[proc[p].name].deleted
        /\ ~proc[p].faulted
        /\ proc[p].result = KeyMissing
        /\ NonePresent(bucket, proc[p].name)
        /\ nextKey > 1

\* C9: lookup asks the key service to Decrypt only when each of its three
\* GETs, which complete in any order, has succeeded; a lookup of a name one
\* of whose three objects is missing fails with an S3 get error
\* (S3GetObjectError when no request breaks) and sends no Decrypt.
C9_DecryptAfterThreeGets ==
    \A p \in Procs :
        LET c == proc[p]
            gets == {Request("GET", {ObjectKey(c.name, x)}) :
                         x \in {KeySuffix, CipherSuffix, MetaSuffix}}
        IN  /\ (Request("Decrypt", {}) \in c.reqs \/ c.pc = "lookup_decrypt") =>
                   /\ c.op = "lookup"
                   /\ gets \subseteq c.reqs
                   /\ DOMAIN c.got = Parts
                   /\ AllPresent(bucket, c.name)
            /\ (Returned(p, "lookup") /\ c.alone /\ ~AllPresent(bucket, c.name)) =>
                   /\ c.result \in {Err("S3GetObjectError"), Err("S3GetObjectBodyError")}
                   /\ ~c.faulted => c.result = Err("S3GetObjectError")
                   /\ Request("Decrypt", {}) \notin c.reqs

\* a lookup got the .meta and .key objects, found no .aesgcm.encrypted
\* object and returned the get error without a Decrypt
C9_Witness ==
    \E p \in Procs :
        /\ Returned(p, "lookup")
        /\ ~proc[p].faulted
        /\ ObjectKey(proc[p].name, CipherSuffix) \notin DOMAIN bucket
        /\ Request("GET", {ObjectKey(proc[p].name, MetaSuffix)}) \in proc[p].reqs
        /\ Request("GET", {ObjectKey(proc[p].name, KeySuffix)}) \in proc[p].reqs
        /\ Request("GET", {ObjectKey(proc[p].name, CipherSuffix)}) \in proc[p].reqs
        /\ proc[p].result = Err("S3GetObjectError")
        /\ Request("Decrypt", {}) \notin proc[p].reqs

\* C10: store on a Vault without a key ARN returns KeyARNMissingError
\* without any request; whenever encrypt fails (no key ARN, GenerateDataKey
\* failing, or its answer lacking the plaintext or the wrapped key) store
\* returns that error, sends no PUT and leaves the bucket unchanged.
C10_EncryptFailureWritesNothing ==
    [][\A p \in Procs :
          Called(p, "store") =>
              LET c == proc'[p]
              IN  /\ bucket' = bucket
                  /\ key_arn = None =>
                         (c.pc = "idle" /\ c.result = Err("KeyARNMissingError") /\ c.reqs = {})
                  /\ (key_arn # None /\ c.faulted) =>
                         /\ c.pc = "idle"
                         /\ c.result \in {Err("KmsGenerateDataKeyError"),
                                          Err("KMSDataKeyPlainTextMissingError"),
                                          Err("CiphertextEncryptionError")}
                  /\ c.pc = "idle" =>
                         /\ c.result.kind = "err"
                         /\ c.pending = {}
                         /\ {r \in c.reqs : r.verb = "PUT"} = {}
                  /\ c.pc # "idle" => (c.pc = "store_puts" /\ key_arn # None /\ ~c.faulted)
      ]_vars

\* a store on a Vault without a key ARN returned the error and sent nothing
C10_Witness ==
    \E p \in Procs :
        /\ Returned(p, "store")
        /\ key_arn = None
        /\ proc[p].result = Err("KeyARNMissingError")
        /\ proc[p].reqs = {}
        /\ bucket = [o \in {} |-> None]

\* the bytes of a sealed object: the masked payload followed by the tag
SealedLen(sealed) == Len(sealed.body) + TagLen

\* C11: every PUT of store writes, under <n>.key, the wrapped data key the
\* key service returned as CiphertextBlob, never the plaintext data key;
\* what it writes under the other two keys is the sealed payload (not the
\* payload) and the Meta text; every .key object in the bucket holds a
\* wrapped key.
C11_OnlyWrappedKeyPersisted ==
    [][\A p \in Procs :
          (proc[p].pc = "store_puts" /\ bucket' # bucket) =>
              LET c == proc[p]
                  new == {k \in DOMAIN bucket' : k \notin DOMAIN bucket \/ bucket'[k] # bucket[k]}
                  kk == ObjectKey(c.name, KeySuffix)
                  kc == ObjectKey(c.name, CipherSuffix)
                  km == ObjectKey(c.name, MetaSuffix)
              IN  /\ new \subseteq {kk, kc, km}
                  /\ kk \in new =>
                         /\ \E i \in 1..MaxKeys : bucket'[kk] = DataKeyBlob(i)
                         /\ \A i \in 1..MaxKeys : bucket'[kk] # DataKeyPlaintext(i)
                  /\ kc \in new =>
                         /\ SealedLen(bucket'[kc]) = Len(c.data) + TagLen
                         /\ c.data # <<>> => bucket'[kc].body # c.data
                         /\ bucket'[kc].tag.x = 0
                  /\ km \in new =>
                         /\ MetaFromSlice(bucket'[km]).ok
                         /\ Len(bucket'[km]) = MetaLen
                  /\ \A n \in Names :
                         ObjectKey(n, KeySuffix) \in DOMAIN bucket' =>
                             bucket'[ObjectKey(n, KeySuffix)].kind = "wrapped"
      ]_vars

\* a store of a payload that is not empty wrote its three objects
C11_Witness ==
    \E n \in Names :
        /\ track[n].stored
        /\ track[n].data = <<195, 169>>
        /\ bucket[ObjectKey(n, KeySuffix)] = DataKeyBlob(1)
        /\ bucket[ObjectKey(n, CipherSuffix)].body # <<195, 169>>

\* the names of the secrets in bucket b: its keys that end in
\* ".aesgcm.encrypted", without that suffix
SecretNames(b) ==
    {SubSeq(k, 1, Len(k) - Len(CipherSuffix)) :
        k \in {o \in DOMAIN b : Len(o) >= Len(CipherSuffix)
                                /\ SubSeq(o, Len(o) - Len(CipherSuffix) + 1, Len(o)) = CipherSuffix}}

Listed(r) == {r.val[i] : i \in 1..Len(r.val)}

C13_AllFollowsPagination ==
    [][\A p \in Procs :
          (Called(p, "all") /\ ~proc'[p].faulted) =>
              /\ proc'[p].result.kind = "ok"
              /\ Listed(proc'[p].result) = SecretNames(bucket)
      ]_vars

\* the call of the operator has returned
CtlReturned == ctl.pc = "idle" /\ ctl.result # NoResult

(* C14: a step of init that describes a stack an earlier init created and   *)
(* waited for, and that the service answers, goes on to read the stack's    *)
(* data and not to CreateStack; the step that reads the data, answered,     *)
(* makes init report Exists with no CreateStack among its requests; and     *)
(* whenever init sends CreateStack its describe_stack had not found the     *)
(* stack.                                                                    *)
C14_InitCreatesOnce ==
    [][ /\ ( /\ ctl.pc = "init_describe" /\ ctl'.pc # "init_describe"
             /\ stacks[ctl.stack_name].inited /\ ~ctl'.faulted )
           => ctl'.pc = "init_exists"
        /\ ( /\ ctl.pc = "init_exists" /\ ctl'.pc = "idle"
             /\ stacks[ctl.stack_name].inited /\ ~ctl'.faulted )
           => /\ ctl'.result = Ok([outcome |-> "Exists"])
              /\ "CreateStack" \notin ctl'.reqs
        /\ ("CreateStack" \in ctl'.reqs /\ "CreateStack" \notin ctl.reqs)
           => ctl.found = Some(FALSE) ]_vars

\* a second init of "v1" has reported Exists for the stack the first created
C14_Witness ==
    /\ CtlReturned /\ ctl.op = "init" /\ ctl.stack_name = "v1"
    /\ stacks["v1"].inited /\ stacks["v1"].status = "CREATE_COMPLETE"
    /\ ctl.result = Ok([outcome |-> "Exists"])
    /\ "CreateStack" \notin ctl.reqs

\* the status a poll loop waits for
GoodStatus(loop) == IF loop = "cli_update" THEN "UPDATE_COMPLETE" ELSE "CREATE_COMPLETE"

\* the statuses after which no further change of the stack is to be expected
\* and the change has failed
BadStatuses == {"CREATE_FAILED", "UPDATE_FAILED", "ROLLBACK_FAILED", "ROLLBACK_COMPLETE"}

(* C15: a round of a poll loop that observes a status returns success when  *)
(* the status is the one the loop waits for (CREATE_COMPLETE for creation,  *)
(* UPDATE_COMPLETE for update), returns failure when it is CREATE_FAILED,   *)
(* UPDATE_FAILED, ROLLBACK_FAILED or ROLLBACK_COMPLETE, and goes round      *)
(* again for any other status; and a loop returns success only from a round *)
(* that observed the status it waits for.                                   *)
C15_PollLoopVerdicts ==
    [][ ctl.pc = "wait" /\ ctl' # ctl =>
          /\ ctl'.seen # None =>
                LET s == ctl'.seen.some
                IN  /\ s = GoodStatus(ctl.loop) => ctl'.result.kind = "ok"
                    /\ s \in BadStatuses => ctl'.result.kind = "err"
                    /\ s \notin BadStatuses \cup {GoodStatus(ctl.loop)}
                          => ctl'.pc = "wait" /\ ctl'.result = NoResult
          /\ ctl'.result.kind = "ok" => ctl'.seen = Some(GoodStatus(ctl.loop)) ]_vars

\* what update_stack reports when it has submitted an update from version v
Updated(v) == [outcome |-> "Updated", previous_version |-> v,
               new_version |-> VAULT_STACK_VERSION]

(* C16: once update_stack has read the stack data: if they carry no version *)
(* it has failed with StackVersionNotFoundError and sends no UpdateStack;   *)
(* if the version is less than the embedded one it sends UpdateStack, and   *)
(* what it reports is Updated with the deployed and the embedded version;   *)
(* if the version is equal or greater it has returned UpToDate and sends    *)
(* no UpdateStack.  When the data could not be read no UpdateStack is sent. *)
C16_UpdateWhenOlder ==
    ctl.op = "update" =>
       IF ctl.deployed = None THEN "UpdateStack" \notin ctl.reqs
       ELSE LET v == ctl.deployed.some
            IN  /\ v = None =>
                      /\ CtlReturned /\ ctl.result = Err("StackVersionNotFoundError")
                      /\ "UpdateStack" \notin ctl.reqs
                /\ (v # None /\ v.some < VAULT_STACK_VERSION) =>
                      /\ ctl.pc = "update_submit" \/ "UpdateStack" \in ctl.reqs
                      /\ ctl.report = Some(Updated(v.some))
                      /\ ctl.result.kind = "ok" => ctl.result = Ok(Updated(v.some))
                /\ (v # None /\ v.some >= VAULT_STACK_VERSION) =>
                      /\ CtlReturned /\ ctl.result = Ok([outcome |-> "UpToDate"])
                      /\ "UpdateStack" \notin ctl.reqs

\* an update from version 1 has been submitted, waited for and reported
C16_Witness ==
    /\ CtlReturned /\ ctl.op = "update" /\ "UpdateStack" \in ctl.reqs
    /\ ctl.deployed = Some(Some(1))
    /\ ctl.result = Ok(Updated(1))
    /\ stacks[ctl.stack_name].version = Some(VAULT_STACK_VERSION)

\* the bucket handed to init, by argument or by VAULT_BUCKET
SuppliedBucket ==
    IF ctl.args.some.bucket # None THEN ctl.args.some.bucket ELSE env.VAULT_BUCKET

(* C19: an init that was given a bucket, by argument or by VAULT_BUCKET,    *)
(* sends no GetCallerIdentity, does not fail with CallerIdError or          *)
(* MissingAccountIdError, and goes on with the bucket as given; an init     *)
(* that was given none goes on with stack name, region and account id of    *)
(* the caller as the bucket.                                                *)
C19_CallerIdentityOnlyWithoutBucket ==
    ctl.op = "init" =>
       IF SuppliedBucket # None
       THEN /\ "GetCallerIdentity" \notin ctl.reqs
            /\ ctl.result \notin {Err("CallerIdError"), Err("MissingAccountIdError")}
            /\ ctl.bucket # None => ctl.bucket = SuppliedBucket
       ELSE ctl.bucket # None =>
               ctl.bucket = Some(DerivedBucket(ctl.stack_name, Region, AccountId))

\* the three object keys of the combined name prefix+n
KeysOfName(n) == {ObjectKey(n, x) : x \in {KeySuffix, CipherSuffix, MetaSuffix}}

(* C17: the prefix of the Vault is empty or ends with "/"; the Vault built  *)
(* with prefix "t" is the Vault built with "t/"; and every object key that  *)
(* a store, lookup, exists or delete of name n sends to the object store is *)
(* one of the three keys of prefix+n: each PUT of store and each GET of     *)
(* lookup names one of them, the HEAD of exists and delete names the .key   *)
(* one, and the DELETE request names all three.                             *)
C17_PrefixedKeys ==
    /\ prefix = <<>> \/ EndsWith(prefix, <<"/">>)
    /\ (prefix = NormalizePrefix(<<"t">>)) = (prefix = NormalizePrefix(<<"t", "/">>))
    /\ \A p \in Procs :
          proc[p].op \in {"store", "lookup", "exists", "delete"} =>
             \A r \in proc[p].reqs :
                CASE r.verb \in {"PUT", "GET"} ->
                        \E k \in KeysOfName(proc[p].name) : r.keys = {k}
                  [] r.verb = "HEAD" -> r.keys = {ObjectKey(proc[p].name, KeySuffix)}
                  [] r.verb = "DELETE" -> r.keys = KeysOfName(proc[p].name)
                  [] OTHER -> r.keys = {}

\* under the prefix "t/" a delete has sent its HEAD and its DELETE for the
\* three keys t/a.key, t/a.aesgcm.encrypted and t/a.meta
C17_Witness ==
    /\ prefix = <<"t", "/">>
    /\ \E p \in Procs :
          /\ Returned(p, "delete") /\ proc[p].name = <<"a">>
          /\ Request("HEAD", {<<"t", "/", "a">> \o KeySuffix}) \in proc[p].reqs
          /\ Request("DELETE", {<<"t", "/", "a">> \o x :
                                  x \in {KeySuffix, CipherSuffix, MetaSuffix}}) \in proc[p].reqs

\* the first of argument, environment variable and default that is there
Resolved(arg, variable, default) ==
    IF arg # None THEN arg.some
    ELSE IF env[variable] # None THEN env[variable].some
    ELSE default

(* C18: a constructed Vault has the stack name, the bucket, the key and the *)
(* prefix that the argument, else the environment variable, else the        *)
(* default gives, each on its own: the default stack name is "vault", the   *)
(* default bucket and key are the outputs of the stack of that name, and    *)
(* the default prefix is empty.  (The Vault of lib.rs has no prefix, and    *)
(* its stack name only matters when the stack is read.)                     *)
C18_ArgumentEnvironmentDefault ==
    (ctl.op \in {"new", "lib_new"} /\ ctl.result.kind = "ok") =>
        LET a == ctl.args.some
            v == ctl.result.val
            stack_name == Resolved(a.vault_stack, "VAULT_STACK", "vault")
        IN  /\ (ctl.op = "new" \/ ctl.reqs # {}) => v.stack_name = stack_name
            /\ v.bucket_name = Resolved(a.bucket, "VAULT_BUCKET",
                                        OrElse(stacks[stack_name].bucket, Some(None)).some)
            /\ v.key_arn = IF a.key # None THEN a.key
                           ELSE IF env.VAULT_KEY # None THEN env.VAULT_KEY
                           ELSE stacks[stack_name].key
            /\ ctl.op = "new" =>
                  v.prefix = NormalizePrefix(Resolved(a.prefix, "VAULT_PREFIX", <<>>))

\* the command line's store was called with or without --overwrite
CliCall(c, overwrite) == c.cli = Some([overwrite |-> overwrite])

(* C20: a store command without --overwrite first sends the HEAD of        *)
(* exists and nothing else; when the key is there it ends with the         *)
(* already-exists error, when the check fails it ends with that failure,   *)
(* and in both cases the bucket is left as it was and nothing more is      *)
(* sent; otherwise, and at once with --overwrite, it goes on to the        *)
(* library store, which sends no HEAD, only the key request and the three  *)
(* PUTs, and on success has left this call's three bodies under the three  *)
(* keys whatever was there before.                                         *)
C20_CliStoreRefusesExisting ==
    [][\A p \in Procs :
          LET c == proc[p]
              d == proc'[p]
              keys == S3DataKeys(prefix \o d.name)
              head == Request("HEAD", {keys.key})
          IN  /\ (c.pc = "idle" /\ d # c /\ CliCall(d, FALSE)) =>
                    /\ d.reqs = {head}
                    /\ bucket' = bucket
                    /\ IF d.faulted
                       THEN d.pc = "idle" /\ d.result = Err("S3HeadObjectError")
                       ELSE IF keys.key \in DOMAIN bucket
                       THEN d.pc = "idle" /\ d.result = Err("KeyAlreadyExists")
                       ELSE d.pc = "cli_store" /\ d.result = NoResult
              /\ (c.pc = "idle" /\ d # c /\ CliCall(d, TRUE)) =>
                    /\ d.op = "store"
                    /\ d.reqs = {Request("GenerateDataKey", {})}
              /\ (c.pc = "cli_store" /\ d # c) =>
                    /\ d.op = "store"
                    /\ d.reqs = {head, Request("GenerateDataKey", {})}
              /\ (c.pc = "store_puts" /\ c.cli # None /\ d # c) =>
                    /\ \A r \in d.reqs \ c.reqs :
                          \E w \in Parts : r = Request("PUT", {keys[w]})
                    /\ d.result = StoreJoined =>
                          \A w \in Parts : bucket'[keys[w]] = StoreBody(c.enc, w)
      ]_vars

\* without --overwrite the command was refused for a name whose three
\* objects an earlier store left, and sent the HEAD only
C20_Witness ==
    \E p \in Procs :
        /\ Returned(p, "cli_store") /\ CliCall(proc[p], FALSE)
        /\ proc[p].result = Err("KeyAlreadyExists")
        /\ proc[p].base.stored
        /\ AllPresent(bucket, proc[p].name)
        /\ proc[p].reqs = {Request("HEAD", {ObjectKey(proc[p].name, KeySuffix)})}

(* C21: a command of the command line (store, delete, lookup, exists) that  *)
(* is given a key that is empty or blank ends with the empty-key error and  *)
(* has sent no request to the object store or the key service.              *)
C21_CliRejectsEmptyKey ==
    \A p \in Procs :
        (proc[p].cli # None /\ trim_is_empty(proc[p].name)) =>
            /\ proc[p].pc = "idle"
            /\ proc[p].result = Err("EmptyKey")
            /\ proc[p].reqs = {}

(* C22: the value read from a file or from standard input has exactly the   *)
(* bytes that were read, as Utf8 when they are valid UTF-8 and as Binary    *)
(* otherwise, whatever the content.                                         *)
C22_ValueKeepsInputBytes ==
    (ctl.op = "read_value" /\ ctl.args.some.source \in {"stdin", "file"}) =>
        LET content == ctl.args.some.content
        IN  ctl.result = Ok(IF IsUtf8(content) THEN Utf8Value(content)
                            ELSE BinaryValue(content))

\* the store call whose data key sealed or wrapped the body of an object
KeyNumber(body, part) ==
    CASE part = "key" -> body.id
      [] part = "cipher" -> body.tag.k.id

\* the three bodies g.key, g.cipher and g.meta are what one store call wrote:
\* the data key of the one sealed the other, under the nonce of .meta
SameStore(g) ==
    /\ KeyNumber(g.key, "key") = KeyNumber(g.cipher, "cipher")
    /\ g.meta = MetaToJson(MetaNew(AlgAesGcm, g.cipher.tag.n))

OneStore(b) ==
    LET keys == S3DataKeys(prefix \o RaceName)
    IN  /\ \A w \in Parts : keys[w] \in DOMAIN b
        /\ SameStore([w \in Parts |-> b[keys[w]]])

(* C23: when the last call of each of the two tasks is a store of the name  *)
(* that returned success, the three objects in the bucket were written by   *)
(* one and the same store call.                                             *)
C23_ConcurrentStoresLeaveOneSecret ==
    (\A p \in Procs : Returned(p, "store") /\ proc[p].result = StoreJoined)
        => OneStore(bucket)

\* the lookup p is back from has read all three objects
ReadAll(p) ==
    /\ Returned(p, "lookup")
    /\ proc[p].name = RaceName
    /\ DOMAIN proc[p].got = Parts

(* C24: whatever the interleaving of stores, deletes and lookups of the     *)
(* name, a lookup that returns Ok has read the three objects of one store   *)
(* call and returns the bytes that call was given; a lookup that has read   *)
(* objects of different store calls returns an error.                       *)
C24_LookupReturnsOneStoredValue ==
    \A p \in Procs :
        LET c == proc[p]
            k == KeyNumber(c.got.key, "key")
        IN  /\ (Returned(p, "lookup") /\ c.result.kind = "ok") =>
                    /\ ReadAll(p)
                    /\ SameStore(c.got)
                    /\ k \in 1..(nextKey - 1)
                    /\ c.result = Ok(ValueOfDecrypted(RaceData(k)))
            /\ (ReadAll(p) /\ ~SameStore(c.got)) => c.result = DecryptFailure

\* a lookup read the .key of one store call and the ciphertext of another, and
\* failed; the other task's lookup returned a value
C24_Witness ==
    \E p, q \in Procs :
        /\ ReadAll(p)
        /\ KeyNumber(proc[p].got.key, "key") # KeyNumber(proc[p].got.cipher, "cipher")
        /\ proc[p].result = DecryptFailure
        /\ Returned(q, "lookup")
        /\ proc[q].result.kind = "ok"
        /\ ~proc[q].alone

\* the store command p runs, or is back from, has sent a PUT
CliWrote(p) ==
    /\ CliCall(proc[p], FALSE)
    /\ proc[p].name = RaceName
    /\ \E r \in proc[p].reqs : r.verb = "PUT"

(* C28: of two store commands without --overwrite on a name that was absent *)
(* and that nothing deletes, at most one ever sends a PUT.                  *)
C28_OneCliStoreWrites == ~(\A p \in Procs : CliWrote(p))

\* what a poll reads of a stack that has stopped changing: one of the statuses
\* the service leaves by itself no more, or no status at all
FinalReports == {Some(s) : s \in StableStatuses} \cup {None}

\* the poll loop is going round on the report s of a stack that has stopped
\* changing
PollingOn(s) ==
    /\ ctl.pc = "wait"
    /\ ctl.seen = s
    /\ stacks[ctl.stack_name].status \in StableStatuses

(* C25: no poll loop goes round for ever on one final report of a stack     *)
(* that has stopped changing: for every stable status, and for the answer   *)
(* without status, the loop is again and again either back or reading       *)
(* something else.                                                          *)
C25_PollLoopsReturn == \A s \in FinalReports : []<>(~PollingOn(s))

\* the step is the describe_stack of init, and the service failed the request
DescribeFailed ==
    /\ ctl.pc = "init_describe"
    /\ ctl'.pc # "init_describe"
    /\ ~ctl.faulted
    /\ ctl'.faulted

(* C26: a describe_stack of init that the service fails ends init with an   *)
(* error, and init goes on to CreateStack only from a describe_stack that   *)
(* the service answered for a stack that is not there.                      *)
C26_CreateOnlyWhenMissing ==
    [][ /\ DescribeFailed => ctl'.pc = "idle" /\ ctl'.result.kind = "err"
        /\ (ctl.pc = "init_describe" /\ ctl'.pc = "init_create")
              => ~ctl'.faulted /\ stacks[ctl.stack_name].status = "NONE" ]_vars

\* the step is the one of init that reads the data of the stack it found, and
\* the service answered
ReadExisting ==
    /\ ctl.pc = "init_exists"
    /\ ctl'.pc # "init_exists"
    /\ ctl'.faulted = ctl.faulted

(* C27: when init has found the stack and read its data, it reports Exists  *)
(* for a stack that is complete, ExistsWithFailedState for one in a failed  *)
(* status, and for one that is still changing it enters the poll loop.      *)
C27_ExistingStackByStatus ==
    [][ ReadExisting =>
          LET status == stacks[ctl.stack_name].status
          IN  /\ status \in {"CREATE_COMPLETE", "UPDATE_COMPLETE"}
                    => ctl'.result = Ok([outcome |-> "Exists"])
              /\ status \in BadStatuses
                    => ctl'.result = Ok([outcome |-> "ExistsWithFailedState"])
              /\ status \notin StableStatuses => ctl'.pc = "wait" ]_vars

\* the nonce of a .meta text that parses, decoded from base64
NonceOfMeta(m) == B64Decode(MetaFromSlice(m).nonce)

(* C29: whatever the three objects hold, a lookup ends with a value or with *)
(* an error, never with a panic; when the .meta it read parses and its      *)
(* nonce decodes to a length other than 12 bytes, and the key service       *)
(* answered, it ends with InvalidNonceLengthError.                          *)
C29_LookupNeverAborts ==
    \A p \in Procs :
        Returned(p, "lookup") =>
            /\ proc[p].result.kind \in {"ok", "err"}
            /\ ( /\ DOMAIN proc[p].got = Parts
                 /\ ~proc[p].faulted
                 /\ MetaFromSlice(proc[p].got.meta).ok
                 /\ NonceOfMeta(proc[p].got.meta).ok
                 /\ Len(NonceOfMeta(proc[p].got.meta).bytes) # NonceLen )
               => proc[p].result = Err("InvalidNonceLengthError")

\* the caller holds a list: the result of its last all(), made after the last
\* change of the bucket
HoldsList == Returned(1, "all") /\ proc[1].result.kind = "ok"

\* the step is a call of exists, or the return of a lookup, made in slot 2 with
\* a name of the held list; any other step from a held list starts a store or
\* a delete in slot 1, or a lookup in slot 2
ExistsOfListed ==
    /\ HoldsList
    /\ proc'[1].pc = "idle" /\ proc'[1].op = "all"
    /\ proc[2].pc = "idle" /\ proc'[2].pc = "idle" /\ proc'[2].op = "exists"
    /\ proc'[2].name \in Listed(proc[1].result)

LookupOfListed ==
    /\ HoldsList
    /\ proc[2].pc # "idle" /\ proc'[2].pc = "idle" /\ proc[2].op = "lookup"
    /\ proc[2].name \in Listed(proc[1].result)

(* C30: an exists called with a name of the list the caller holds returns   *)
(* true, and a lookup called with such a name returns the value stored.     *)
C30_ListedNamesAreAccessible ==
    [][ /\ ExistsOfListed => proc'[2].result.val = TRUE
        /\ LookupOfListed => proc'[2].result = Ok(Utf8Value(NamesData)) ]_vars
====
